---------------------------- MODULE Spec2Model ----------------------------
(***************************************************************************)
(* Playlist manager: the account model (playlist_manager/user.py), the     *)
(* session bootstrap (login in playlist_manager/main.py and ui.py) and the *)
(* storage layer (playlist_manager/storage.py, database.py).               *)
(*                                                                         *)
(* A Python str is a sequence of one-character strings, so that strip(),   *)
(* lower() and upper() are computed, not assumed.  A Python dict is a      *)
(* sequence of [k, v] entries in insertion order.                          *)
(***************************************************************************)
EXTENDS Integers, Sequences, FiniteSets, TLC

VARIABLES
    user,       \* the User object of the session: username, password, playlists, favorite_mood
    call,       \* the last Account Model call: operation, arguments, exception raised, value returned
    users,      \* the collection the session holds in memory (users / users_raw)
    pc,         \* where the process is: "start", "loaded", "menu" or "ended"
    log,        \* the storage calls the process has made, in order
    boot,       \* the last login: what was typed, what was loaded, the branch taken
    file,       \* the playlists file of the JSON backend
    table,      \* the rows of the playlists table of the MySQL backend
    backend,    \* USE_MYSQL once storage.py is imported: "mysql" or "json"
    io,         \* the last direct call of the storage module and its outcome
    heap        \* the list and dict objects, where object identity is followed

modelVars == <<user, call>>

sessVars == <<users, pc, log, boot, heap>>

storeVars == <<file, table, backend, io>>

vars == <<user, call, users, pc, log, boot, file, table, backend, io, heap>>

(***************************************************************************)
(* Python values                                                           *)
(***************************************************************************)

\* Python's None, kept apart from every str (a str holds one-character strings only).
None == <<"None">>

\* The characters str.strip() removes.
Whitespace == {" "}

\* str.lower(), per character.
lower_char(c) ==
    CASE c = "H" -> "h"
      [] c = "S" -> "s"
      [] c = "C" -> "c"
      [] OTHER -> c

\* str.upper(), per character: one character may become two ("ß" -> "SS").
upper_char(c) ==
    CASE c = "h" -> <<"H">>
      [] c = "s" -> <<"S">>
      [] c = "c" -> <<"C">>
      [] c = "ß" -> <<"S", "S">>
      [] OTHER -> <<c>>

lower(s) == [i \in 1..Len(s) |-> lower_char(s[i])]

RECURSIVE upper(_)
upper(s) == IF s = <<>> THEN <<>> ELSE upper_char(Head(s)) \o upper(Tail(s))

RECURSIVE lstrip(_)
lstrip(s) ==
    IF s # <<>> /\ Head(s) \in Whitespace THEN lstrip(Tail(s)) ELSE s

RECURSIVE rstrip(_)
rstrip(s) ==
    IF s # <<>> /\ s[Len(s)] \in Whitespace THEN rstrip(SubSeq(s, 1, Len(s) - 1)) ELSE s

strip(s) == rstrip(lstrip(s))

\* dict: the keys, membership, d[k], d[k] = v (a new key goes last), d.pop(k).
Keys(d) == {d[i].k : i \in 1..Len(d)}

Has(d, k) == k \in Keys(d)

Get(d, k) == d[CHOOSE i \in 1..Len(d) : d[i].k = k].v

Put(d, k, v) ==
    IF Has(d, k)
    THEN [i \in 1..Len(d) |-> IF d[i].k = k THEN [k |-> k, v |-> v] ELSE d[i]]
    ELSE Append(d, [k |-> k, v |-> v])

IsNot(e, k) == e.k # k

Pop(d, k) == SelectSeq(d, LAMBDA e : IsNot(e, k))

\* list.pop(i) on a list of length n, for -n <= i < n: the position removed, and the rest.
PopAt(l, i) == IF i < 0 THEN i + Len(l) + 1 ELSE i + 1

Without(l, p) == SubSeq(l, 1, p - 1) \o SubSeq(l, p + 1, Len(l))

\* [s.lower() for s in l]
LowerAll(l) == [i \in 1..Len(l) |-> lower(l[i])]

Elems(l) == {l[i] : i \in 1..Len(l)}

(***************************************************************************)
(* The outcome of a call: the exception raised ("none" when it returns),   *)
(* its message, the value returned and the User object after the call.     *)
(***************************************************************************)
Return(u, ret) == [exc |-> "none", msg |-> "", ret |-> ret, user |-> u]

Raise(u, exc, msg) == [exc |-> exc, msg |-> msg, ret |-> None, user |-> u]

(***************************************************************************)
(* The Account Model: class User                                           *)
(***************************************************************************)

\* user.py 46-64
create_mood_keeps_case(u, mood_name) ==
    LET mood == strip(mood_name) IN
    IF mood = <<>> THEN Raise(u, "ValueError", "Mood name cannot be empty.")
    ELSE IF Has(u.playlists, mood) THEN Raise(u, "ValueError", "Mood already exists.")
    ELSE Return([u EXCEPT !.playlists = Put(@, mood, <<>>)], None)

\* user.py 46-64 without the test of line 60.
create_mood_overwrites(u, mood_name) ==
    LET mood == lower(strip(mood_name)) IN
    IF mood = <<>> THEN Raise(u, "ValueError", "Mood name cannot be empty.")
    ELSE Return([u EXCEPT !.playlists = Put(@, mood, <<>>)], None)

create_mood(u, mood_name) ==
    LET mood == lower(strip(mood_name)) IN
    IF mood = <<>> THEN Raise(u, "ValueError", "Mood name cannot be empty.")
    ELSE IF Has(u.playlists, mood) THEN Raise(u, "ValueError", "Mood already exists.")
    ELSE Return([u EXCEPT !.playlists = Put(@, mood, <<>>)], None)

\* user.py 66-91 with the song validated (82-84) before the mood is looked up (79-81).
add_song_validates_first(u, mood_name, song_name) ==
    LET mood == lower(strip(mood_name))
        song == strip(song_name)
    IN  IF song = <<>> THEN Raise(u, "ValueError", "Song name cannot be empty.")
        ELSE IF ~Has(u.playlists, mood) THEN Raise(u, "KeyError", "Mood not found.")
        ELSE IF lower(song) \in Elems(LowerAll(Get(u.playlists, mood)))
             THEN Raise(u, "ValueError", "Song already exists in playlist.")
        ELSE Return([u EXCEPT !.playlists = Put(@, mood, Append(Get(@, mood), song))], None)

\* user.py 66-91
add_song(u, mood_name, song_name) ==
    LET mood == lower(strip(mood_name))
        song == strip(song_name)
    IN  IF ~Has(u.playlists, mood) THEN Raise(u, "KeyError", "Mood not found.")
        ELSE IF song = <<>> THEN Raise(u, "ValueError", "Song name cannot be empty.")
        ELSE IF lower(song) \in Elems(LowerAll(Get(u.playlists, mood)))
             THEN Raise(u, "ValueError", "Song already exists in playlist.")
        ELSE Return([u EXCEPT !.playlists = Put(@, mood, Append(Get(@, mood), song))], None)

\* user.py 93-118 with a negative index refused, as rename_song refuses it.
delete_song_refuses_negative(u, mood_name, index) ==
    LET mood == lower(strip(mood_name)) IN
    IF ~Has(u.playlists, mood) THEN Raise(u, "KeyError", "Mood not found.")
    ELSE LET l == Get(u.playlists, mood) IN
         IF index < 0 \/ index >= Len(l)
         THEN Raise(u, "IndexError", "pop index out of range")
         ELSE Return([u EXCEPT !.playlists = Put(@, mood, Without(l, index + 1))],
                     l[index + 1])

\* user.py 93-118: list.pop(index) raises IndexError before it changes the list.
delete_song(u, mood_name, index) ==
    LET mood == lower(strip(mood_name)) IN
    IF ~Has(u.playlists, mood) THEN Raise(u, "KeyError", "Mood not found.")
    ELSE LET l == Get(u.playlists, mood) IN
         IF l = <<>> THEN Raise(u, "IndexError", "pop from empty list")
         ELSE IF index >= Len(l) \/ index < -Len(l)
              THEN Raise(u, "IndexError", "pop index out of range")
         ELSE Return([u EXCEPT !.playlists = Put(@, mood, Without(l, PopAt(l, index)))],
                     l[PopAt(l, index)])

\* user.py 120-159 with existing_lower built from every position, index included.
rename_song_counts_itself(u, mood_name, index, new_name_arg) ==
    LET mood == lower(strip(mood_name)) IN
    IF ~Has(u.playlists, mood) THEN Raise(u, "KeyError", "Mood not found.")
    ELSE LET l == Get(u.playlists, mood)
             new_name == strip(new_name_arg)
         IN  IF l = <<>> THEN Raise(u, "ValueError", "Playlist is empty.")
             ELSE IF index < 0 \/ index >= Len(l)
                  THEN Raise(u, "IndexError", "Song index out of range.")
             ELSE IF new_name = <<>> THEN Raise(u, "ValueError", "New name cannot be empty.")
             ELSE IF lower(new_name) \in Elems(LowerAll(l))
                  THEN Raise(u, "ValueError", "A song with that name already exists.")
             ELSE Return([u EXCEPT !.playlists =
                                Put(@, mood, [l EXCEPT ![index + 1] = new_name])],
                         <<l[index + 1], new_name>>)

\* user.py 120-159
rename_song(u, mood_name, index, new_name_arg) ==
    LET mood == lower(strip(mood_name)) IN
    IF ~Has(u.playlists, mood) THEN Raise(u, "KeyError", "Mood not found.")
    ELSE LET l == Get(u.playlists, mood)
             new_name == strip(new_name_arg)
             existing_lower == {lower(l[i]) : i \in (1..Len(l)) \ {index + 1}}
         IN  IF l = <<>> THEN Raise(u, "ValueError", "Playlist is empty.")
             ELSE IF index < 0 \/ index >= Len(l)
                  THEN Raise(u, "IndexError", "Song index out of range.")
             ELSE IF new_name = <<>> THEN Raise(u, "ValueError", "New name cannot be empty.")
             ELSE IF lower(new_name) \in existing_lower
                  THEN Raise(u, "ValueError", "A song with that name already exists.")
             ELSE Return([u EXCEPT !.playlists =
                                Put(@, mood, [l EXCEPT ![index + 1] = new_name])],
                         <<l[index + 1], new_name>>)

\* user.py 161-188 with the test of line 184 made before the test of line 181.
rename_mood_checks_taken_first(u, old_mood, new_mood_name) ==
    LET old == lower(strip(old_mood))
        new == lower(strip(new_mood_name))
    IN  IF ~Has(u.playlists, old) THEN Raise(u, "KeyError", "Mood not found.")
        ELSE IF new = <<>> THEN Raise(u, "ValueError", "New mood name cannot be empty.")
        ELSE IF Has(u.playlists, new)
             THEN Raise(u, "ValueError", "A mood with that name already exists.")
        ELSE IF new = old THEN Raise(u, "ValueError", "New mood name is the same as old.")
        ELSE Return([u EXCEPT !.playlists = Put(Pop(@, old), new, Get(@, old))], None)

\* user.py 161-188 with line 187 as self.playlists[new] = self.playlists[old].
rename_mood_keeps_old(u, old_mood, new_mood_name) ==
    LET old == lower(strip(old_mood))
        new == lower(strip(new_mood_name))
    IN  IF ~Has(u.playlists, old) THEN Raise(u, "KeyError", "Mood not found.")
        ELSE IF new = <<>> THEN Raise(u, "ValueError", "New mood name cannot be empty.")
        ELSE IF new = old THEN Raise(u, "ValueError", "New mood name is the same as old.")
        ELSE IF Has(u.playlists, new)
             THEN Raise(u, "ValueError", "A mood with that name already exists.")
        ELSE Return([u EXCEPT !.playlists = Put(@, new, Get(@, old))], None)

\* user.py 161-188 with favorite_mood following the renamed key.
rename_mood_moves_favorite(u, old_mood, new_mood_name) ==
    LET old == lower(strip(old_mood))
        new == lower(strip(new_mood_name))
    IN  IF ~Has(u.playlists, old) THEN Raise(u, "KeyError", "Mood not found.")
        ELSE IF new = <<>> THEN Raise(u, "ValueError", "New mood name cannot be empty.")
        ELSE IF new = old THEN Raise(u, "ValueError", "New mood name is the same as old.")
        ELSE IF Has(u.playlists, new)
             THEN Raise(u, "ValueError", "A mood with that name already exists.")
        ELSE Return([u EXCEPT !.playlists = Put(Pop(@, old), new, Get(@, old)),
                              !.favorite_mood = IF @ = old THEN new ELSE @], None)

\* user.py 161-188
rename_mood_pops_first(u, old_mood, new_mood_name) ==
    LET old == lower(strip(old_mood))
        new == lower(strip(new_mood_name))
    IN  IF ~Has(u.playlists, old) THEN Raise(u, "KeyError", "Mood not found.")
        ELSE IF new = <<>> THEN Raise(u, "ValueError", "New mood name cannot be empty.")
        ELSE IF new = old THEN Raise(u, "ValueError", "New mood name is the same as old.")
        ELSE IF Has(Pop(u.playlists, old), new)
             THEN Raise([u EXCEPT !.playlists = Pop(@, old)],
                        "ValueError", "A mood with that name already exists.")
        ELSE Return([u EXCEPT !.playlists = Put(Pop(@, old), new, Get(@, old))], None)

rename_mood(u, old_mood, new_mood_name) ==
    LET old == lower(strip(old_mood))
        new == lower(strip(new_mood_name))
    IN  IF ~Has(u.playlists, old) THEN Raise(u, "KeyError", "Mood not found.")
        ELSE IF new = <<>> THEN Raise(u, "ValueError", "New mood name cannot be empty.")
        ELSE IF new = old THEN Raise(u, "ValueError", "New mood name is the same as old.")
        ELSE IF Has(u.playlists, new)
             THEN Raise(u, "ValueError", "A mood with that name already exists.")
        ELSE Return([u EXCEPT !.playlists = Put(Pop(@, old), new, Get(@, old))], None)

\* user.py 190-197
clear_all_playlists(u) ==
    Return([u EXCEPT !.playlists = [i \in 1..Len(@) |-> [k |-> @[i].k, v |-> <<>>]]], None)

\* user.py 202-217
set_favorite_mood(u, mood_name) ==
    LET mood == lower(strip(mood_name)) IN
    IF ~Has(u.playlists, mood) THEN Raise(u, "KeyError", "Mood not found.")
    ELSE Return([u EXCEPT !.favorite_mood = mood], None)

\* user.py 219-228: "" and None are both falsy.
get_favorite_songs(u) ==
    IF u.favorite_mood # None /\ u.favorite_mood # <<>> /\ Has(u.playlists, u.favorite_mood)
    THEN Return(u, Get(u.playlists, u.favorite_mood))
    ELSE Return(u, None)

\* user.py 279: [(m, s) for m, songs in self.playlists.items() for s in songs]
RECURSIVE all_songs(_)
all_songs(d) ==
    IF d = <<>> THEN <<>>
    ELSE [i \in 1..Len(Head(d).v) |-> <<Head(d).k, Head(d).v[i]>>] \o all_songs(Tail(d))

\* user.py 252-285 with the draw made from all songs also when a mood is given.
surprise_me_ignores_mood(u, mood_name, pick) ==
    IF mood_name # None /\ mood_name # <<>>
    THEN LET m == lower(strip(mood_name)) IN
         IF ~Has(u.playlists, m) THEN Raise(u, "KeyError", "Mood not found.")
         ELSE IF Get(u.playlists, m) = <<>>
              THEN Raise(u, "ValueError", "That playlist is empty.")
         ELSE Return(u, all_songs(u.playlists)[pick])
    ELSE IF all_songs(u.playlists) = <<>>
         THEN Raise(u, "ValueError", "No songs available in any playlist.")
    ELSE Return(u, all_songs(u.playlists)[pick])

\* user.py 252-285: random.choice draws position pick of the candidates.
\* A mood_name of None or "" is falsy: the pick is over all songs.
surprise_me(u, mood_name, pick) ==
    IF mood_name # None /\ mood_name # <<>>
    THEN LET m == lower(strip(mood_name)) IN
         IF ~Has(u.playlists, m) THEN Raise(u, "KeyError", "Mood not found.")
         ELSE IF Get(u.playlists, m) = <<>>
              THEN Raise(u, "ValueError", "That playlist is empty.")
         ELSE Return(u, <<m, Get(u.playlists, m)[pick]>>)
    ELSE IF all_songs(u.playlists) = <<>>
         THEN Raise(u, "ValueError", "No songs available in any playlist.")
    ELSE Return(u, all_songs(u.playlists)[pick])

\* The positions random.choice can draw for surprise_me(mood_name).
Picks(u, mood_name) ==
    IF mood_name # None /\ mood_name # <<>>
    THEN IF Has(u.playlists, lower(strip(mood_name)))
            /\ Get(u.playlists, lower(strip(mood_name))) # <<>>
         THEN 1..Len(Get(u.playlists, lower(strip(mood_name))))
         ELSE {1}
    ELSE IF all_songs(u.playlists) # <<>> THEN 1..Len(all_songs(u.playlists)) ELSE {1}

\* kw in song: kw occurs in s as a run of consecutive characters ("" occurs in every str).
Contains(s, kw) ==
    \E i \in 0..(Len(s) - Len(kw)) : SubSeq(s, i + 1, i + Len(kw)) = kw

\* user.py 233-250 with the keyword stripped but not lower-cased.
search_song_keeps_case(u, keyword) ==
    LET kw == strip(keyword)
    IN  Return(u, SelectSeq(all_songs(u.playlists), LAMBDA p : Contains(lower(p[2]), kw)))

\* user.py 233-250: the (mood, song) pairs in iteration order whose lower-cased song
\* contains the stripped, lower-cased keyword.
search_song(u, keyword) ==
    LET kw == lower(strip(keyword))
    IN  Return(u, SelectSeq(all_songs(u.playlists), LAMBDA p : Contains(lower(p[2]), kw)))

\* max(items, key=len of the list): the first item among those of greatest length.
RECURSIVE max_by_len(_)
max_by_len(d) ==
    IF Len(d) = 1 THEN d[1]
    ELSE LET rest == max_by_len(Tail(d))
         IN  IF Len(rest.v) > Len(Head(d).v) THEN rest ELSE Head(d)

\* max(...) keeping the later item when two lengths are equal.
RECURSIVE max_by_len_keeps_last(_)
max_by_len_keeps_last(d) ==
    IF Len(d) = 1 THEN d[1]
    ELSE LET rest == max_by_len_keeps_last(Tail(d))
         IN  IF Len(rest.v) >= Len(Head(d).v) THEN rest ELSE Head(d)

\* min(items, key=len of the list): the first item among those of least length.
RECURSIVE min_by_len(_)
min_by_len(d) ==
    IF Len(d) = 1 THEN d[1]
    ELSE LET rest == min_by_len(Tail(d))
         IN  IF Len(rest.v) < Len(Head(d).v) THEN rest ELSE Head(d)

\* sum(len(songs) for songs in self.playlists.values())
RECURSIVE total_songs(_)
total_songs(d) == IF d = <<>> THEN 0 ELSE Len(Head(d).v) + total_songs(Tail(d))

\* user.py 290-319 with the later of two moods of equal greatest length reported.
playlist_statistics_keeps_last(u) ==
    IF u.playlists = <<>>
    THEN Return(u, [total_songs |-> 0, num_moods |-> 0,
                    longest_playlist |-> <<None, 0>>, shortest_playlist |-> <<None, 0>>])
    ELSE LET longest_mood == max_by_len_keeps_last(u.playlists)
             shortest_mood == min_by_len(u.playlists)
         IN  Return(u, [total_songs |-> total_songs(u.playlists),
                        num_moods |-> Len(u.playlists),
                        longest_playlist |-> <<longest_mood.k, Len(longest_mood.v)>>,
                        shortest_playlist |-> <<shortest_mood.k, Len(shortest_mood.v)>>])

\* user.py 290-319
playlist_statistics(u) ==
    IF u.playlists = <<>>
    THEN Return(u, [total_songs |-> 0, num_moods |-> 0,
                    longest_playlist |-> <<None, 0>>, shortest_playlist |-> <<None, 0>>])
    ELSE LET longest_mood == max_by_len(u.playlists)
             shortest_mood == min_by_len(u.playlists)
         IN  Return(u, [total_songs |-> total_songs(u.playlists),
                        num_moods |-> Len(u.playlists),
                        longest_playlist |-> <<longest_mood.k, Len(longest_mood.v)>>,
                        shortest_playlist |-> <<shortest_mood.k, Len(shortest_mood.v)>>])

(***************************************************************************)
(* JSON values.  A raw record and the collection are dicts; a slot that    *)
(* should hold a dict may hold another JSON value, kept apart from every   *)
(* dict by a key that no str equals.                                       *)
(***************************************************************************)
\* null, a list or a number where a dict should be.
JsonNull == << [k |-> <<"#null">>, v |-> <<>>] >>

JsonList == << [k |-> <<"#list">>, v |-> <<>>] >>

JsonNumber == << [k |-> <<"#number">>, v |-> <<>>] >>

\* isinstance(x, dict)
IsDict(x) == x \notin {JsonNull, JsonList, JsonNumber}

\* The fields of a raw record.
Password == <<"password">>

Playlists == <<"playlists">>

FavoriteMood == <<"favorite_mood">>

\* {"password": password, "playlists": playlists}
Record(password, playlists) ==
    << [k |-> Password, v |-> password], [k |-> Playlists, v |-> playlists] >>

\* bool(s) of a str or None.
Truthy(s) == s # None /\ s # <<>>

\* d.get(k), None when k is absent.
GetOrNone(d, k) == IF Has(d, k) THEN Get(d, k) ELSE None

\* config.py 28-33: DEFAULT_PLAYLISTS, cut down to two moods of one song each.
DEFAULT_PLAYLISTS ==
    << [k |-> <<"h">>, v |-> << <<"s", "s">> >>], [k |-> <<"s">>, v |-> << <<"ß">> >>] >>

\* {k: v.copy() for k, v in DEFAULT_PLAYLISTS.items()}: a new dict of new lists,
\* entry by entry.
CopyOf(d) == [i \in 1..Len(d) |-> [k |-> d[i].k, v |-> [j \in 1..Len(d[i].v) |-> d[i].v[j]]]]

\* storage.get_default_playlists, which main.py imports and storage.py does not
\* define: a deep copy of the default mood template.
get_default_playlists == CopyOf(DEFAULT_PLAYLISTS)

(***************************************************************************)
(* Object identity.  The heap holds the list objects and the dict objects; *)
(* a dict object maps each key to the identity of a list object.           *)
(***************************************************************************)
\* config.py 28-33 as objects: one dict, one list per mood.
TemplateHeap ==
    [lists |-> [i \in 1..Len(DEFAULT_PLAYLISTS) |-> DEFAULT_PLAYLISTS[i].v],
     dicts |-> << [i \in 1..Len(DEFAULT_PLAYLISTS) |-> [k |-> DEFAULT_PLAYLISTS[i].k, v |-> i]] >>]

TemplateId == 1

\* The value of the dict object id: each key with the contents of its list.
Deref(h, id) ==
    [i \in 1..Len(h.dicts[id]) |-> [k |-> h.dicts[id][i].k, v |-> h.lists[h.dicts[id][i].v]]]

\* {k: v for k, v in d.items()}: a new dict on the same list objects.
copy_playlists_shares_lists(h, id) ==
    [lists |-> h.lists, dicts |-> Append(h.dicts, h.dicts[id])]

\* ui.py 64 and 105: {k: v.copy() for k, v in DEFAULT_PLAYLISTS.items()}, a new dict
\* object whose values are new list objects.
copy_playlists(h, id) ==
    [lists |-> h.lists \o [i \in 1..Len(h.dicts[id]) |-> h.lists[h.dicts[id][i].v]],
     dicts |-> Append(h.dicts,
                      [i \in 1..Len(h.dicts[id]) |-> [k |-> h.dicts[id][i].k, v |-> Len(h.lists) + i]])]

\* user.py 90 append, 113 pop, 157 item assignment: the list objects of the dict id
\* take the contents they have in d; a list object is changed for all who hold it.
in_place(h, id, d) ==
    [h EXCEPT !.lists =
        [j \in 1..Len(h.lists) |->
            IF \E i \in 1..Len(h.dicts[id]) : h.dicts[id][i].v = j
            THEN Get(d, h.dicts[id][CHOOSE i \in 1..Len(h.dicts[id]) : h.dicts[id][i].v = j].k)
            ELSE h.lists[j]]]

\* user.py 187: self.playlists[new] = self.playlists.pop(old), the same list object
\* under the new key of the same dict object.
rekeyed(h, id, old, new) ==
    [h EXCEPT !.dicts[id] = Put(Pop(h.dicts[id], old), new, Get(h.dicts[id], old))]

\* user.py 196: self.playlists = {k: [] for k in self.playlists.keys()}, a new dict
\* object of new empty list objects.
cleared(h, id) ==
    [lists |-> h.lists \o [i \in 1..Len(h.dicts[id]) |-> <<>>],
     dicts |-> Append(h.dicts,
                      [i \in 1..Len(h.dicts[id]) |-> [k |-> h.dicts[id][i].k, v |-> Len(h.lists) + i]])]

(***************************************************************************)
(* The storage module                                                      *)
(***************************************************************************)
\* json.dump(data, f): the text written.  json.load(f): the value read back, when the
\* text is JSON at all.
dumps(value) == [valid |-> TRUE, value |-> value]

Garbage == [valid |-> FALSE, value |-> <<>>]

NoFile == [exists |-> FALSE, text |-> Garbage]

FileOf(text) == [exists |-> TRUE, text |-> text]

Value(val) == [exc |-> "none", val |-> val]

Throw(exc) == [exc |-> exc, val |-> <<>>]

\* storage.py 66-67: open(PLAYLIST_FILE, "r") and json.load(f).
read_json(f, fault) ==
    IF fault # "none" THEN Throw(fault)
    ELSE IF ~f.text.valid THEN Throw("JSONDecodeError")
    ELSE Value(f.text.value)

\* database.py 166-192: an undecodable row raises out of the loop; only a
\* mysql.connector Error is caught here.  With no connection self.connection is
\* None and .cursor() raises AttributeError.
fetch_all_users(t, fault) ==
    IF fault = "Error" THEN Value(<<>>)
    ELSE IF fault # "none" THEN Throw(fault)
    ELSE IF \E i \in 1..Len(t) : ~t[i].v.valid THEN Throw("JSONDecodeError")
    ELSE Value([i \in 1..Len(t) |-> [k |-> t[i].k, v |-> t[i].v.value]])

\* database.py 249-268
load_data_from_mysql(t, fault) ==
    LET r == fetch_all_users(t, fault) IN
    IF r.exc # "none" THEN Value(<<>>)
    ELSE IF ~IsDict(r.val) THEN Value(<<>>)
    ELSE r

\* storage.py 39-85, with only FileNotFoundError and JSONDecodeError handled.
load_data_handles_two(be, f, t, fault) ==
    IF be = "mysql" THEN load_data_from_mysql(t, fault)
    ELSE IF ~f.exists THEN Value(<<>>)
    ELSE LET r == read_json(f, fault) IN
         IF r.exc \in {"FileNotFoundError", "JSONDecodeError"} THEN Value(<<>>)
         ELSE IF r.exc # "none" THEN r
         ELSE IF ~IsDict(r.val) THEN Value(<<>>)
         ELSE r

\* storage.py 39-85
load_data(be, f, t, fault) ==
    IF be = "mysql"
    THEN LET r == load_data_from_mysql(t, fault) IN
         IF r.exc # "none" THEN Value(<<>>) ELSE r
    ELSE IF ~f.exists THEN Value(<<>>)
    ELSE LET r == read_json(f, fault) IN
         IF r.exc = "FileNotFoundError" THEN Value(<<>>)
         ELSE IF r.exc = "JSONDecodeError" THEN Value(<<>>)
         ELSE IF r.exc # "none" THEN Value(<<>>)
         ELSE IF ~IsDict(r.val) THEN Value(<<>>)
         ELSE r

\* storage.py 109-110: open(PLAYLIST_FILE, "w") fails and leaves the file as it was, or
\* truncates it; a failure while json.dump writes leaves a cut-off text.
write_json(f, data, fault) ==
    IF fault = "PermissionError" THEN [exc |-> fault, file |-> f]
    ELSE IF fault # "none" THEN [exc |-> fault, file |-> FileOf(Garbage)]
    ELSE [exc |-> "none", file |-> FileOf(dumps(data))]

\* database.py 107-135 in the loop of 271-289: one upsert per account, each with its
\* own commit.  The insert of account number fault.at fails: on a mysql.connector
\* Error the insert returns False and the loop goes on, any other exception ends it.
RECURSIVE upsert_from(_, _, _, _)
upsert_from(t, data, i, fault) ==
    IF i > Len(data) THEN t
    ELSE IF fault.at = i /\ fault.kind = "Error" THEN upsert_from(t, data, i + 1, fault)
    ELSE IF fault.at = i /\ fault.kind # "none" THEN t
    ELSE upsert_from(Put(t, data[i].k, dumps(data[i].v)), data, i + 1, fault)

\* database.py 271-289 as one transaction: a failing insert leaves the table untouched.
save_data_to_mysql_in_one_transaction(t, data, fault) ==
    IF fault.kind # "none" THEN t ELSE upsert_from(t, data, 1, fault)

save_data_to_mysql(t, data, fault) == upsert_from(t, data, 1, fault)

\* storage.py 88-117 writing, for an account the store already holds, the record the
\* store holds instead of the record passed.
save_data_keeps_stored(be, f, t, data, fault) ==
    LET old == load_data(be, f, t, "none").val
        kept == [i \in 1..Len(data) |->
                    IF Has(old, data[i].k) THEN [k |-> data[i].k, v |-> Get(old, data[i].k)]
                    ELSE data[i]]
    IN  IF be = "mysql"
        THEN [exc |-> "none", file |-> f, table |-> save_data_to_mysql(t, kept, fault)]
        ELSE [exc |-> "none", file |-> write_json(f, kept, fault.kind).file, table |-> t]

\* storage.py 88-117 with the handler of line 115 missing.
save_data_catches_permission_only(be, f, t, data, fault) ==
    IF be = "mysql"
    THEN [exc |-> "none", file |-> f, table |-> save_data_to_mysql(t, data, fault)]
    ELSE LET w == write_json(f, data, fault.kind)
         IN  [exc |-> IF w.exc = "PermissionError" THEN "none" ELSE w.exc,
              file |-> w.file, table |-> t]

\* storage.py 88-117: PermissionError is caught at 112, every other exception at 115 (at
\* 103 for MySQL, where save_data_to_mysql has caught it already).
save_data(be, f, t, data, fault) ==
    IF be = "mysql"
    THEN [exc |-> "none", file |-> f, table |-> save_data_to_mysql(t, data, fault)]
    ELSE LET w == write_json(f, data, fault.kind)
         IN  [exc |-> IF w.exc = "PermissionError" THEN "none"
                      ELSE IF w.exc # "none" THEN "none"
                      ELSE "none",
              file |-> w.file, table |-> t]

(***************************************************************************)
(* The session bootstrap: User(...), login() of main.py, login(users) of   *)
(* ui.py.  A login yields the User object (NoUser for None), the           *)
(* collection as login leaves it, the collections it handed to save_data   *)
(* and the branch it took.                                                 *)
(***************************************************************************)
NoUser == [username |-> None, password |-> None, playlists |-> <<>>, favorite_mood |-> None]

\* user.py 18-41: a playlists argument of None falls back to a copy of the defaults,
\* or to {}; len(self.playlists) in the log line raises TypeError for a number.
User(username, password, playlists_arg, favorite_mood, default_playlists) ==
    LET playlists == IF playlists_arg # JsonNull THEN playlists_arg
                     ELSE IF default_playlists # JsonNull THEN CopyOf(default_playlists)
                     ELSE <<>>
    IN  IF playlists = JsonNumber THEN [exc |-> "TypeError", obj |-> NoUser]
        ELSE [exc |-> "none",
              obj |-> [username |-> username, password |-> password,
                       playlists |-> playlists, favorite_mood |-> favorite_mood]]

LoggedIn(user_obj, users_after, saves, path) ==
    [user_obj |-> user_obj, users |-> users_after, saves |-> saves, path |-> path]

\* main.py 52, ui.py 58: the shape check.
malformed(stored) ==
    ~IsDict(stored) \/ ~Has(stored, Password) \/ ~Has(stored, Playlists)

\* main.py 94-104 (new user) and 56-62 (malformed user).
login_fresh(users_in, username, password, path) ==
    LET users_after == Put(users_in, username, Record(password, get_default_playlists))
    IN  LoggedIn(User(username, password, Get(Get(users_after, username), Playlists),
                      None, JsonNull).obj,
                 users_after, << users_after >>, path)

\* main.py 64-93 with the password check left out.
login_known_any_password(users_in, username, password) ==
    LET stored == Get(users_in, username)
        made == User(username, Get(stored, Password), Get(stored, Playlists),
                     GetOrNone(stored, FavoriteMood), JsonNull)
    IN  IF made.exc # "none" THEN LoggedIn(NoUser, users_in, <<>>, "error")
        ELSE LoggedIn(made.obj, users_in, <<>>, "success")

\* main.py 64-93 with a fresh profile made when the password differs.
login_known_resets_on_mismatch(users_in, username, password) ==
    LET stored == Get(users_in, username)
        made == User(username, Get(stored, Password), Get(stored, Playlists),
                     GetOrNone(stored, FavoriteMood), JsonNull)
    IN  IF Get(stored, Password) # password
        THEN login_fresh(users_in, username, password, "repair")
        ELSE IF made.exc # "none" THEN LoggedIn(NoUser, users_in, <<>>, "error")
        ELSE LoggedIn(made.obj, users_in, <<>>, "success")

\* main.py 64-93: a well-formed record.  Anything raised here is caught at 90-93.
login_known(users_in, username, password) ==
    LET stored == Get(users_in, username)
        made == User(username, Get(stored, Password), Get(stored, Playlists),
                     GetOrNone(stored, FavoriteMood), JsonNull)
    IN  IF Get(stored, Password) # password THEN LoggedIn(NoUser, users_in, <<>>, "reject")
        ELSE IF made.exc # "none" THEN LoggedIn(NoUser, users_in, <<>>, "error")
        ELSE LoggedIn(made.obj, users_in, <<>>, "success")

\* main.py 31-104 with an unknown username turned away.
login_rejects_unknown(users_in, username_in, password_in) ==
    LET username == strip(username_in)
        password == strip(password_in)
    IN  IF username = <<>> THEN LoggedIn(NoUser, users_in, <<>>, "empty")
        ELSE IF ~Has(users_in, username) THEN LoggedIn(NoUser, users_in, <<>>, "reject")
        ELSE IF malformed(Get(users_in, username))
             THEN login_fresh(users_in, username, password, "repair")
        ELSE login_known(users_in, username, password)

\* main.py 31-104, given what load_data() returned and what was typed.
login(users_in, username_in, password_in) ==
    LET username == strip(username_in)
        password == strip(password_in)
    IN  IF username = <<>> THEN LoggedIn(NoUser, users_in, <<>>, "empty")
        ELSE IF ~Has(users_in, username) THEN login_fresh(users_in, username, password, "create")
        ELSE IF malformed(Get(users_in, username))
             THEN login_fresh(users_in, username, password, "repair")
        ELSE login_known(users_in, username, password)

\* main.py 117-124: what main() does to users_raw once login() returned a User.
main_fixup(r) ==
    IF r.user_obj = NoUser THEN r.users
    ELSE LET name == r.user_obj.username
             with_user == IF Has(r.users, name) THEN r.users ELSE Put(r.users, name, <<>>)
             stored == Get(with_user, name)
             with_playlists == IF Has(stored, Playlists) THEN stored
                               ELSE Put(stored, Playlists, get_default_playlists)
             with_favorite == IF Truthy(r.user_obj.favorite_mood)
                              THEN Put(with_playlists, FavoriteMood, r.user_obj.favorite_mood)
                              ELSE with_playlists
         IN  Put(with_user, name, with_favorite)

\* ui.py 62-69 with the stored record updated in place of being replaced.
ui_login_repair_keeps_rest(users_in, username, password, path) ==
    LET old == IF Has(users_in, username) /\ IsDict(Get(users_in, username))
               THEN Get(users_in, username) ELSE <<>>
        users_after == Put(users_in, username,
                           Put(Put(old, Password, password), Playlists, CopyOf(DEFAULT_PLAYLISTS)))
    IN  LoggedIn(User(username, password, Get(Get(users_after, username), Playlists),
                      None, DEFAULT_PLAYLISTS).obj,
                 users_after, << users_after >>, path)

\* ui.py 99-110 (new user) and 62-69 (malformed user).
ui_login_fresh(users_in, username, password, path) ==
    LET users_after == Put(users_in, username, Record(password, CopyOf(DEFAULT_PLAYLISTS)))
    IN  LoggedIn(User(username, password, Get(Get(users_after, username), Playlists),
                      None, DEFAULT_PLAYLISTS).obj,
                 users_after, << users_after >>, path)

\* ui.py 71-98: a well-formed record.  Anything raised here is caught at 95-98.
ui_login_known(users_in, username, password) ==
    LET stored == Get(users_in, username)
        made == User(username, Get(stored, Password), Get(stored, Playlists),
                     GetOrNone(stored, FavoriteMood), DEFAULT_PLAYLISTS)
    IN  IF Get(stored, Password) # password THEN LoggedIn(NoUser, users_in, <<>>, "reject")
        ELSE IF made.exc # "none" THEN LoggedIn(NoUser, users_in, <<>>, "error")
        ELSE LoggedIn(made.obj, users_in, <<>>, "success")

\* ui.py 35-110
ui_login(users_in, username_in, password_in) ==
    LET username == strip(username_in)
        password == strip(password_in)
    IN  IF username = <<>> THEN LoggedIn(NoUser, users_in, <<>>, "empty")
        ELSE IF ~Has(users_in, username)
             THEN ui_login_fresh(users_in, username, password, "create")
        ELSE IF malformed(Get(users_in, username))
             THEN ui_login_fresh(users_in, username, password, "repair")
        ELSE ui_login_known(users_in, username, password)

(***************************************************************************)
(* What the storage may hold when a process starts, what is typed at the   *)
(* prompts, and how a storage call may fail.                               *)
(***************************************************************************)
OneMood == << [k |-> <<"h">>, v |-> << <<"s", "s">> >>] >>

\* The raw records the account "u" may have in storage: well-formed ones, ones whose
\* playlists is not a mapping, ones that fail the shape check.
StoredRecords ==
    << Record(<<"p">>, OneMood),
       Record(<<"p">>, OneMood) \o << [k |-> FavoriteMood, v |-> <<"h">>] >>,
       Record(<<"p">>, JsonNull),
       Record(<<"p">>, JsonList),
       Record(<<"p">>, JsonNumber),
       << [k |-> Playlists, v |-> OneMood], [k |-> FavoriteMood, v |-> <<"h">>] >>,
       << [k |-> Password, v |-> <<"p">>] >>,
       JsonList >>

OtherAccount ==
    [k |-> <<"v">>, v |-> Record(<<"q">>, << [k |-> <<"s">>, v |-> << <<"ß">> >>] >>)]

StoredCollections ==
    << <<>>, << OtherAccount >> >>
    \o [i \in 1..Len(StoredRecords) |-> << [k |-> <<"u">>, v |-> StoredRecords[i]] >>]
    \o << << OtherAccount, [k |-> <<"u">>, v |-> StoredRecords[1]] >> >>

\* The playlists file: absent, not JSON, JSON that is not an object, or a collection.
StoredFiles ==
    << NoFile, FileOf(Garbage), FileOf(dumps(JsonList)) >>
    \o [i \in 1..Len(StoredCollections) |-> FileOf(dumps(StoredCollections[i]))]

\* One row per account, the raw record serialized in its data column.
Rows(collection) ==
    [i \in 1..Len(collection) |-> [k |-> collection[i].k, v |-> dumps(collection[i].v)]]

\* The playlists table: the rows of a collection, or a row that does not decode.
StoredTables ==
    << << [k |-> <<"u">>, v |-> Garbage] >>,
       << [k |-> <<"v">>, v |-> dumps(OtherAccount.v)], [k |-> <<"u">>, v |-> Garbage] >> >>
    \o [i \in 1..Len(StoredCollections) |-> Rows(StoredCollections[i])]

UsernameInputs == {<<" ">>, <<" ", "u">>, <<"v">>}

PasswordInputs == {<<"p", " ">>, <<"q">>}

NoFault == [kind |-> "none", at |-> 0]

\* open()/json.load() of storage.py 66-67, fetch_all_users of database.py 166-192.
LoadFaults(be) ==
    IF be = "mysql" THEN {"none", "Error", "AttributeError"}
    ELSE {"none", "FileNotFoundError", "PermissionError"}

\* open()/json.dump() of storage.py 109-110, insert_user_data of database.py 107-135.
SaveFaults(be, data) ==
    IF be = "mysql"
    THEN {NoFault} \cup {[kind |-> kd, at |-> i] : kd \in {"Error", "AttributeError"}, i \in 1..Len(data)}
    ELSE {NoFault, [kind |-> "PermissionError", at |-> 0], [kind |-> "OSError", at |-> 0]}

(***************************************************************************)
(* The inputs of the Account Model calls                                   *)
(***************************************************************************)
MoodInputs == {<<>>, <<" ", "H">>, <<"s", " ">>}

\* create_mood is also given a second spelling of the mood "h".
CreateInputs == MoodInputs \cup {<<"h">>}

SongInputs == {<<" ">>, <<" ", "s", "s">>, <<" ", "S", "S">>, <<" ", "ß">>}

\* The positions asked for: up to MaxIndex from either end.
MaxIndex == 2

Indexes == (-MaxIndex)..MaxIndex

Called(op, mood, index, name, r) ==
    [op |-> op, mood |-> mood, index |-> index, name |-> name,
     exc |-> r.exc, msg |-> r.msg, ret |-> r.ret]

(***************************************************************************)
(* One session's calls on its User object                                  *)
(***************************************************************************)
CreateMood ==
    \E m \in CreateInputs :
        LET r == create_mood(user, m) IN
        /\ user' = r.user
        /\ call' = Called("create_mood", m, 0, None, r)
        /\ UNCHANGED <<sessVars, storeVars>>

AddSong ==
    \E m \in MoodInputs, s \in SongInputs :
        LET r == add_song(user, m, s) IN
        /\ user' = r.user
        /\ call' = Called("add_song", m, 0, s, r)
        /\ UNCHANGED <<sessVars, storeVars>>

DeleteSong ==
    \E m \in MoodInputs, i \in Indexes :
        LET r == delete_song(user, m, i) IN
        /\ user' = r.user
        /\ call' = Called("delete_song", m, i, None, r)
        /\ UNCHANGED <<sessVars, storeVars>>

RenameSong ==
    \E m \in MoodInputs, i \in Indexes, s \in SongInputs :
        LET r == rename_song(user, m, i, s) IN
        /\ user' = r.user
        /\ call' = Called("rename_song", m, i, s, r)
        /\ UNCHANGED <<sessVars, storeVars>>

RenameMood ==
    \E m \in MoodInputs, n \in MoodInputs :
        LET r == rename_mood(user, m, n) IN
        /\ user' = r.user
        /\ call' = Called("rename_mood", m, 0, n, r)
        /\ UNCHANGED <<sessVars, storeVars>>

ClearAllPlaylists ==
    LET r == clear_all_playlists(user) IN
    /\ user' = r.user
    /\ call' = Called("clear_all_playlists", None, 0, None, r)
    /\ UNCHANGED <<sessVars, storeVars>>

SetFavoriteMood ==
    \E m \in MoodInputs :
        LET r == set_favorite_mood(user, m) IN
        /\ user' = r.user
        /\ call' = Called("set_favorite_mood", m, 0, None, r)
        /\ UNCHANGED <<sessVars, storeVars>>

GetFavoriteSongs ==
    LET r == get_favorite_songs(user) IN
    /\ user' = r.user
    /\ call' = Called("get_favorite_songs", None, 0, None, r)
    /\ UNCHANGED <<sessVars, storeVars>>

SurpriseMe ==
    \E m \in MoodInputs \cup {None} :
        \E pick \in Picks(user, m) :
            LET r == surprise_me(user, m, pick) IN
            /\ user' = r.user
            /\ call' = Called("surprise_me", m, 0, None, r)
            /\ UNCHANGED <<sessVars, storeVars>>

NoCall == [op |-> "none", mood |-> None, index |-> 0, name |-> None,
           exc |-> "none", msg |-> "", ret |-> None]

NoBoot == [variant |-> "none", username |-> None, password |-> None, loaded |-> <<>>,
           user_obj |-> NoUser, users |-> <<>>, saves |-> <<>>, path |-> "none"]

NoIo == [op |-> "none", fault |-> NoFault, exc |-> "none", val |-> <<>>]

\* No process, no storage: the state around a User object on its own.
Detached ==
    /\ users = <<>>
    /\ pc = "menu"
    /\ log = <<>>
    /\ boot = NoBoot
    /\ heap = TemplateHeap
    /\ file = NoFile
    /\ table = <<>>
    /\ backend = "json"
    /\ io = NoIo

\* User("u", "pw", playlists={}): a profile with no mood yet.
Init ==
    /\ user = [username |-> <<"u">>, password |-> <<"p">>,
               playlists |-> <<>>, favorite_mood |-> None]
    /\ call = NoCall
    /\ Detached

Next ==
    \/ CreateMood
    \/ AddSong
    \/ DeleteSong
    \/ RenameSong
    \/ RenameMood
    \/ ClearAllPlaylists
    \/ SetFavoriteMood
    \/ GetFavoriteSongs
    \/ SurpriseMe

Spec == Init /\ [][Next]_vars

(***************************************************************************)
(* The storage module called directly                                      *)
(***************************************************************************)
\* storage.py 16-33 decides the backend when the module is imported; the storage holds
\* whatever earlier runs, or anything else, left there.
Installed ==
    /\ backend \in {"json", "mysql"}
    /\ \/ backend = "json" /\ table = <<>>
          /\ \E i \in 1..Len(StoredFiles) : file = StoredFiles[i]
       \/ backend = "mysql" /\ file = NoFile
          /\ \E i \in 1..Len(StoredTables) : table = StoredTables[i]

\* load_data()
LoadData ==
    /\ \E fault \in LoadFaults(backend) :
         LET r == load_data(backend, file, table, fault)
         IN  io' = [op |-> "load_data", fault |-> [kind |-> fault, at |-> 0],
                    exc |-> r.exc, val |-> r.val]
    /\ UNCHANGED <<modelVars, sessVars, file, table, backend>>

\* save_data(data): the caller holds data in memory, a collection it has just put
\* together (i > 0) or the one it held already (i = 0), and keeps it whatever happens.
SaveData ==
    /\ \E i \in 0..Len(StoredCollections) :
         LET data == IF i = 0 THEN users ELSE StoredCollections[i]
         IN  \E fault \in SaveFaults(backend, data) :
               LET r == save_data(backend, file, table, data, fault)
               IN  /\ file' = r.file
                   /\ table' = r.table
                   /\ users' = data
                   /\ io' = [op |-> "save_data", fault |-> fault, exc |-> r.exc,
                             val |-> data]
    /\ UNCHANGED <<modelVars, pc, log, boot, heap, backend>>

InitStore ==
    /\ user = NoUser
    /\ call = NoCall
    /\ users = <<>>
    /\ pc = "start"
    /\ log = <<>>
    /\ boot = NoBoot
    /\ heap = TemplateHeap
    /\ io = NoIo
    /\ Installed

NextStore ==
    \/ LoadData
    \/ SaveData

SpecStore == InitStore /\ [][NextStore]_vars

(***************************************************************************)
(* rename_mood as a function of the profile it is called on: a profile     *)
(* built with one or two moods, and names that include a third mood.       *)
(***************************************************************************)
RenameInputs == {<<>>, <<"h">>, <<" ", "H">>, <<"s", " ">>, <<" ", "X">>}

\* The song lists a mood of the profile starts with.
RenameLists == {<<>>, << <<"ß">> >>, << <<"S", "S">> >>, << <<"s", "s">>, <<"ß">> >>}

\* The playlists argument of User(): the moods "h" and "s", either or both, in
\* either order.
RenamePlaylists ==
    {<<>>}
        \cup { << [k |-> m, v |-> l] >> : m \in {<<"h">>, <<"s">>}, l \in RenameLists }
        \cup { << [k |-> m[1], v |-> l1], [k |-> m[2], v |-> l2] >> :
                 m \in { << <<"h">>, <<"s">> >>, << <<"s">>, <<"h">> >> },
                 l1 \in RenameLists, l2 \in RenameLists }

RenameAny ==
    \E m \in RenameInputs, n \in RenameInputs :
        LET r == rename_mood(user, m, n) IN
        /\ user' = r.user
        /\ call' = Called("rename_mood", m, 0, n, r)
        /\ UNCHANGED <<sessVars, storeVars>>

InitRename ==
    /\ \E d \in RenamePlaylists :
         user = User(<<"u">>, <<"p">>, d, None, JsonNull).obj
    /\ call = NoCall
    /\ Detached

NextRename == RenameAny

SpecRename == InitRename /\ [][NextRename]_vars

(***************************************************************************)
(* The read-only calls on a profile built with up to two moods.            *)
(***************************************************************************)
KeywordInputs == {<<>>, <<" ">>, <<" ", "S">>, <<"s", "S", " ">>, <<"ß">>}

SearchSong ==
    \E kw \in KeywordInputs :
        LET r == search_song(user, kw) IN
        /\ user' = r.user
        /\ call' = Called("search_song", None, 0, kw, r)
        /\ UNCHANGED <<sessVars, storeVars>>

PlaylistStatistics ==
    LET r == playlist_statistics(user) IN
    /\ user' = r.user
    /\ call' = Called("playlist_statistics", None, 0, None, r)
    /\ UNCHANGED <<sessVars, storeVars>>

InitQuery ==
    /\ \E d \in RenamePlaylists :
         user = User(<<"u">>, <<"p">>, d, None, JsonNull).obj
    /\ call = NoCall
    /\ Detached

NextQuery ==
    \/ SearchSong
    \/ PlaylistStatistics

SpecQuery == InitQuery /\ [][NextQuery]_vars

(***************************************************************************)
(* The two backends side by side: the same save_data and load_data calls, *)
(* none of them failing, made on a file and on a table that both start     *)
(* empty.                                                                  *)
(***************************************************************************)
\* save_data(data) with USE_MYSQL False, and with USE_MYSQL True.
SaveBoth ==
    /\ \E i \in 1..Len(StoredCollections) :
         LET data == StoredCollections[i]
         IN  /\ file' = save_data("json", file, <<>>, data, NoFault).file
             /\ table' = save_data("mysql", NoFile, table, data, NoFault).table
             /\ io' = [op |-> "save_data", fault |-> NoFault, exc |-> "none", val |-> data]
    /\ UNCHANGED <<modelVars, sessVars, backend>>

\* load_data() with USE_MYSQL False, and with USE_MYSQL True.
LoadBoth ==
    /\ io' = [op |-> "load_data", fault |-> NoFault, exc |-> "none",
              val |-> [json |-> load_data("json", file, <<>>, "none").val,
                       mysql |-> load_data("mysql", NoFile, table, "none").val]]
    /\ UNCHANGED <<modelVars, sessVars, file, table, backend>>

InitTwin ==
    /\ user = NoUser
    /\ call = NoCall
    /\ users = <<>>
    /\ pc = "start"
    /\ log = <<>>
    /\ boot = NoBoot
    /\ heap = TemplateHeap
    /\ io = NoIo
    /\ backend = "json"
    /\ file = NoFile
    /\ table = <<>>

NextTwin ==
    \/ SaveBoth
    \/ LoadBoth

SpecTwin == InitTwin /\ [][NextTwin]_vars

(***************************************************************************)
(* A process: main() of main.py, and a caller of ui.login                  *)
(***************************************************************************)
\* What the save_data calls of a login leave in storage.
Saved(r, fault) ==
    IF r.saves = <<>> THEN [file |-> file, table |-> table]
    ELSE save_data(backend, file, table, r.saves[1], fault)

SavesOf(r) == [i \in 1..Len(r.saves) |-> "save_data"]

Booted(variant, username_in, password_in, loaded, r) ==
    [variant |-> variant, username |-> username_in, password |-> password_in,
     loaded |-> loaded, user_obj |-> r.user_obj, users |-> r.users, saves |-> r.saves,
     path |-> r.path]

\* main.py 117-124: login(), then the fix-up of users_raw; main() returns when login
\* returned no User.
Login ==
    /\ pc = "start"
    /\ \E username_in \in UsernameInputs, password_in \in PasswordInputs,
          lf \in LoadFaults(backend) :
         LET loaded == load_data(backend, file, table, lf).val
             r == login(loaded, username_in, password_in)
         IN  \E sf \in (IF r.saves = <<>> THEN {NoFault} ELSE SaveFaults(backend, r.saves[1])) :
               /\ users' = main_fixup(r)
               /\ user' = r.user_obj
               /\ pc' = IF r.user_obj = NoUser THEN "ended" ELSE "menu"
               /\ log' = log \o <<"load_data">> \o SavesOf(r)
               /\ boot' = Booted("main", username_in, password_in, loaded, r)
               /\ file' = Saved(r, sf).file
               /\ table' = Saved(r, sf).table
    /\ UNCHANGED <<call, backend, io, heap>>

\* main.py 139-153: choice 3 of the main menu.
MainExit ==
    /\ pc = "menu"
    /\ LET stored == Get(users, user.username)
           with_playlists == Put(stored, Playlists, user.playlists)
           with_favorite == IF Truthy(user.favorite_mood)
                            THEN Put(with_playlists, FavoriteMood, user.favorite_mood)
                            ELSE Pop(with_playlists, FavoriteMood)
           users_raw == Put(users, user.username, with_favorite)
       IN  \E sf \in SaveFaults(backend, users_raw) :
             /\ users' = users_raw
             /\ file' = save_data(backend, file, table, users_raw, sf).file
             /\ table' = save_data(backend, file, table, users_raw, sf).table
    /\ pc' = "ended"
    /\ log' = log \o <<"save_data", "close_storage">>
    /\ UNCHANGED <<modelVars, boot, backend, io, heap>>

\* A caller of ui.login loads the collection it will pass.
LoadUsers ==
    /\ pc = "start"
    /\ \E lf \in LoadFaults(backend) : users' = load_data(backend, file, table, lf).val
    /\ pc' = "loaded"
    /\ log' = log \o <<"load_data">>
    /\ UNCHANGED <<modelVars, boot, storeVars, heap>>

\* ui.py 35-110: login(users) on the collection held in memory.
UiLogin ==
    /\ pc = "loaded"
    /\ \E username_in \in UsernameInputs, password_in \in PasswordInputs :
         LET r == ui_login(users, username_in, password_in)
         IN  \E sf \in (IF r.saves = <<>> THEN {NoFault} ELSE SaveFaults(backend, r.saves[1])) :
               /\ users' = r.users
               /\ user' = r.user_obj
               /\ log' = log \o SavesOf(r)
               /\ boot' = Booted("ui", username_in, password_in, users, r)
               /\ file' = Saved(r, sf).file
               /\ table' = Saved(r, sf).table
    /\ UNCHANGED <<call, pc, backend, io, heap>>

\* The process is over; the program is started again on the same storage.
Relaunch ==
    /\ pc \in {"ended", "loaded"}
    /\ pc' = "start"
    /\ user' = NoUser
    /\ users' = <<>>
    /\ log' = <<>>
    /\ UNCHANGED <<call, boot, storeVars, heap>>

InitBoot == InitStore

NextBoot ==
    \/ Login
    \/ MainExit
    \/ LoadUsers
    \/ UiLogin
    \/ Relaunch

SpecBoot == InitBoot /\ [][NextBoot]_vars

(***************************************************************************)
(* The menu of one session: playlist_manager(user, users_raw) and          *)
(* update_password(user, users_raw).  Every choice is a function of the    *)
(* profile and the raw collection; it yields the two after the choice, the *)
(* collections handed to save_data, in order, and the Account Model call   *)
(* it made (NoCall when the menu stopped before calling).                  *)
(***************************************************************************)

\* int(text.strip()) for the texts the model types: one decimal digit, or ValueError.
int(text) ==
    LET s == strip(text) IN
    IF Len(s) = 1 /\ s[1] \in {"0", "1", "2", "3"}
    THEN [exc |-> "none",
          val |-> CASE s[1] = "0" -> 0 [] s[1] = "1" -> 1 [] s[1] = "2" -> 2 [] OTHER -> 3]
    ELSE [exc |-> "ValueError", val |-> 0]

\* users_raw[name][field] = value
SetRaw(raw, name, field, value) == Put(raw, name, Put(Get(raw, name), field, value))

\* The choice returned to the prompt without saving.
Prompted(u, raw, c) == [user |-> u, users |-> raw, saves |-> <<>>, call |-> c]

\* The choice saved the collection once and returned to the prompt.
SavedOnce(u, raw, c) == [user |-> u, users |-> raw, saves |-> <<raw>>, call |-> c]

\* users_raw[user.username]["playlists"] = user.playlists; save_data(users_raw), in the
\* try block of a call that may have raised.
KeepPlaylists(u, raw, r, c) ==
    IF r.exc # "none" THEN Prompted(u, raw, c)
    ELSE SavedOnce(r.user, SetRaw(raw, u.username, Playlists, r.user.playlists), c)

\* ui.py 157-170: choice 2.
menu_add_song(u, raw, mood_in, song_in) ==
    LET mood == lower(strip(mood_in)) IN
    IF ~Has(u.playlists, mood) THEN Prompted(u, raw, NoCall)
    ELSE LET r == add_song(u, mood, strip(song_in))
         IN  KeepPlaylists(u, raw, r, Called("add_song", mood, 0, strip(song_in), r))

\* ui.py 172-196: choice 3; the number typed is one more than the index passed.
menu_delete_song(u, raw, mood_in, number_in) ==
    LET mood == lower(strip(mood_in)) IN
    IF ~Has(u.playlists, mood) THEN Prompted(u, raw, NoCall)
    ELSE IF Get(u.playlists, mood) = <<>> THEN Prompted(u, raw, NoCall)
    ELSE IF int(number_in).exc # "none" THEN Prompted(u, raw, NoCall)
    ELSE LET song_index == int(number_in).val - 1
             r == delete_song(u, mood, song_index)
         IN  KeepPlaylists(u, raw, r, Called("delete_song", mood, song_index, None, r))

\* ui.py 211-219: choice 5.
menu_create_mood(u, raw, mood_in) ==
    LET new_mood == lower(strip(mood_in))
        r == create_mood(u, new_mood)
    IN  KeepPlaylists(u, raw, r, Called("create_mood", new_mood, 0, None, r))

\* ui.py 221-244: choice 6; int() raises ValueError inside the try block.
menu_rename_song(u, raw, mood_in, number_in, name_in) ==
    LET mood == lower(strip(mood_in)) IN
    IF ~Has(u.playlists, mood) THEN Prompted(u, raw, NoCall)
    ELSE IF Get(u.playlists, mood) = <<>> THEN Prompted(u, raw, NoCall)
    ELSE IF int(number_in).exc # "none" THEN Prompted(u, raw, NoCall)
    ELSE LET song_index == int(number_in).val - 1
             new_name == strip(name_in)
             r == rename_song(u, mood, song_index, new_name)
         IN  KeepPlaylists(u, raw, r, Called("rename_song", mood, song_index, new_name, r))

\* ui.py 246-262 without lines 255-257: the favorite keeps naming the old mood.
menu_rename_mood_leaves_favorite(u, raw, old_in, new_in) ==
    LET old_mood == lower(strip(old_in)) IN
    IF ~Has(u.playlists, old_mood) THEN Prompted(u, raw, NoCall)
    ELSE LET new_mood == lower(strip(new_in))
             r == rename_mood(u, old_mood, new_mood)
         IN  KeepPlaylists(u, raw, r, Called("rename_mood", old_mood, 0, new_mood, r))

\* ui.py 246-262: choice 7; a favorite naming the old mood is moved to the new name, in
\* the profile and in the raw record.
menu_rename_mood(u, raw, old_in, new_in) ==
    LET old_mood == lower(strip(old_in)) IN
    IF ~Has(u.playlists, old_mood) THEN Prompted(u, raw, NoCall)
    ELSE LET new_mood == lower(strip(new_in))
             r == rename_mood(u, old_mood, new_mood)
             c == Called("rename_mood", old_mood, 0, new_mood, r)
         IN  IF r.exc # "none" THEN Prompted(u, raw, c)
             ELSE LET with_playlists == SetRaw(raw, u.username, Playlists, r.user.playlists)
                  IN  IF r.user.favorite_mood = old_mood
                      THEN SavedOnce([r.user EXCEPT !.favorite_mood = new_mood],
                                     SetRaw(with_playlists, u.username, FavoriteMood, new_mood),
                                     c)
                      ELSE SavedOnce(r.user, with_playlists, c)

\* ui.py 304-312: choice 10; anything but "yes" or "y" cancels.
menu_clear_all(u, raw, confirm_in) ==
    LET confirm == lower(strip(confirm_in)) IN
    IF confirm \notin {<<"y", "e", "s">>, <<"y">>} THEN Prompted(u, raw, NoCall)
    ELSE LET r == clear_all_playlists(u)
         IN  KeepPlaylists(u, raw, r, Called("clear_all_playlists", None, 0, None, r))

\* ui.py 320-335: choice 11, 1.
menu_set_favorite(u, raw, mood_in) ==
    LET mood == lower(strip(mood_in))
        r == set_favorite_mood(u, mood)
        c == Called("set_favorite_mood", mood, 0, None, r)
    IN  IF r.exc # "none" THEN Prompted(u, raw, c)
        ELSE SavedOnce(r.user, SetRaw(raw, u.username, FavoriteMood, r.user.favorite_mood), c)

\* ui.py 336-341: choice 11, 2; the attribute is assigned, no method is called.
menu_remove_favorite(u, raw) ==
    SavedOnce([u EXCEPT !.favorite_mood = None],
              Put(raw, u.username, Pop(Get(raw, u.username), FavoriteMood)),
              [NoCall EXCEPT !.op = "remove_favorite"])

\* ui.py 389-421: update_password(user, users_raw).
update_password(u, raw, old_in, new_in, confirm_in) ==
    LET old_pass == strip(old_in)
        new_pass == strip(new_in)
        confirm_pass == strip(confirm_in)
    IN  IF u.password # old_pass THEN Prompted(u, raw, NoCall)
        ELSE IF new_pass = <<>> THEN Prompted(u, raw, NoCall)
        ELSE IF new_pass = confirm_pass
             THEN SavedOnce([u EXCEPT !.password = new_pass],
                            SetRaw(raw, u.username, Password, new_pass),
                            [NoCall EXCEPT !.op = "update_password", !.name = new_pass])
        ELSE Prompted(u, raw, NoCall)

\* What the menu is given to read.
MenuMoods == {<<" ", "H">>, <<"x">>}

MenuSongs == {<<>>, <<" ", "S", "S">>}

MenuNumbers == {<<"0">>, <<"1", " ">>, <<"2">>, <<"x">>}

\* How a save of the menu may go: it succeeds, or the JSON file is cut off while it is
\* written.  A failure that leaves the store as it was is left to SpecStore and SpecBoot:
\* here it would make the store any of the collections the session has held.
MenuFaults(be) ==
    IF be = "mysql" THEN {NoFault} ELSE {NoFault, [kind |-> "OSError", at |-> 0]}

\* One choice of the menu: the profile and the collection after it, the save_data call
\* it made, if any, with what the call left in the store.
Choose(m) ==
    /\ pc = "menu"
    /\ IsDict(user.playlists)
    /\ user' = m.user
    /\ users' = m.users
    /\ call' = m.call
    /\ IF m.saves = <<>>
       THEN io' = NoIo /\ UNCHANGED <<file, table>>
       ELSE \E sf \in MenuFaults(backend) :
              LET s == save_data(backend, file, table, m.saves[1], sf) IN
              /\ io' = [op |-> "save_data", fault |-> sf, exc |-> s.exc, val |-> m.saves[1]]
              /\ file' = s.file
              /\ table' = s.table
    /\ UNCHANGED <<pc, log, boot, backend, heap>>

MenuAddSong ==
    \E mood_in \in MenuMoods, song_in \in MenuSongs :
        Choose(menu_add_song(user, users, mood_in, song_in))

MenuDeleteSong ==
    \E mood_in \in MenuMoods, number_in \in MenuNumbers :
        Choose(menu_delete_song(user, users, mood_in, number_in))

MenuCreateMood ==
    \E mood_in \in MenuMoods : Choose(menu_create_mood(user, users, mood_in))

MenuRenameSong ==
    \E mood_in \in MenuMoods, number_in \in MenuNumbers, name_in \in MenuSongs :
        Choose(menu_rename_song(user, users, mood_in, number_in, name_in))

MenuRenameMood ==
    \E old_in \in MenuMoods, new_in \in MenuMoods :
        Choose(menu_rename_mood(user, users, old_in, new_in))

MenuClearAll ==
    \E confirm_in \in {<<"Y", " ">>, <<"n">>} : Choose(menu_clear_all(user, users, confirm_in))

MenuSetFavorite ==
    \E mood_in \in MenuMoods : Choose(menu_set_favorite(user, users, mood_in))

MenuRemoveFavorite == Choose(menu_remove_favorite(user, users))

UpdatePassword ==
    \E old_in \in PasswordInputs, new_in \in PasswordInputs, confirm_in \in PasswordInputs :
        Choose(update_password(user, users, old_in, new_in, confirm_in))

\* The collections in storage when the session starts: none, the account "u" with a
\* favorite, the account "u" with playlists null, and the account "u" next to another.
MenuCollections ==
    << <<>>,
       << [k |-> <<"u">>, v |-> StoredRecords[2]] >>,
       << [k |-> <<"u">>, v |-> StoredRecords[3]] >>,
       << OtherAccount, [k |-> <<"u">>, v |-> StoredRecords[1]] >> >>

\* The session at its first prompt: main() has loaded one of the collections, login()
\* has taken "u" with the password "p", and the fix-up of main.py 117-124 is done.
InitMenu ==
    /\ call = NoCall
    /\ pc = "menu"
    /\ heap = TemplateHeap
    /\ io = NoIo
    /\ backend \in {"json", "mysql"}
    /\ \E i \in 1..Len(MenuCollections) :
         LET f == IF backend = "json" THEN FileOf(dumps(MenuCollections[i])) ELSE NoFile
             t == IF backend = "mysql" THEN Rows(MenuCollections[i]) ELSE <<>>
             loaded == load_data(backend, f, t, "none").val
             r == login(loaded, <<" ", "u">>, <<"p", " ">>)
             s == IF r.saves = <<>> THEN [file |-> f, table |-> t]
                  ELSE save_data(backend, f, t, r.saves[1], NoFault)
         IN  /\ user = r.user_obj
             /\ users = main_fixup(r)
             /\ log = <<"load_data">> \o SavesOf(r)
             /\ boot = Booted("main", <<" ", "u">>, <<"p", " ">>, loaded, r)
             /\ file = s.file
             /\ table = s.table

NextMenu ==
    \/ MenuAddSong
    \/ MenuDeleteSong
    \/ MenuCreateMood
    \/ MenuRenameSong
    \/ MenuRenameMood
    \/ MenuClearAll
    \/ MenuSetFavorite
    \/ MenuRemoveFavorite
    \/ UpdatePassword
    \/ MainExit

SpecMenu == InitMenu /\ [][NextMenu]_vars


(***************************************************************************)
(* Two sessions on one store, with no lock between them: two processes run *)
(* main() against the same file or table.  Here user, users and pc hold    *)
(* one value per session, and log lists the storage calls with the session *)
(* that made each.                                                         *)
(***************************************************************************)
Sessions == {"A", "B"}

\* The storage calls one run may list.
MaxLog == 5

\* main.py 117-124 in one of the sessions: load_data(), login(), the fix-up.
RaceLogin(p) ==
    /\ pc[p] = "start"
    /\ \E username_in \in {<<" ", "u">>, <<"v">>}, password_in \in PasswordInputs :
         LET loaded == load_data(backend, file, table, "none").val
             r == login(loaded, username_in, password_in)
             s == IF r.saves = <<>> THEN [exc |-> "none", file |-> file, table |-> table]
                  ELSE save_data(backend, file, table, r.saves[1], NoFault)
         IN  /\ users' = [users EXCEPT ![p] = main_fixup(r)]
             /\ user' = [user EXCEPT ![p] = r.user_obj]
             /\ pc' = [pc EXCEPT ![p] = IF r.user_obj = NoUser THEN "ended" ELSE "menu"]
             /\ log' = log \o << [session |-> p, op |-> "load_data"] >>
                           \o [i \in 1..Len(r.saves) |-> [session |-> p, op |-> "save_data"]]
             /\ io' = IF r.saves = <<>> THEN io
                      ELSE [op |-> "save_data", fault |-> NoFault, exc |-> s.exc,
                            val |-> r.saves[1]]
             /\ file' = s.file
             /\ table' = s.table
    /\ UNCHANGED <<call, boot, backend, heap>>

\* ui.py 157-170 in one of the sessions: choice 2, saved from the session's own copy of
\* the collection.
RaceAddSong(p) ==
    /\ pc[p] = "menu"
    /\ Len(log) < MaxLog
    /\ \E song_in \in {<<"c">>, <<" ", "d">>} :
         LET m == menu_add_song(user[p], users[p], <<" ", "H">>, song_in)
             s == save_data(backend, file, table, m.saves[1], NoFault)
         IN  /\ m.saves # <<>>
             /\ user' = [user EXCEPT ![p] = m.user]
             /\ users' = [users EXCEPT ![p] = m.users]
             /\ call' = m.call
             /\ io' = [op |-> "save_data", fault |-> NoFault, exc |-> s.exc, val |-> m.saves[1]]
             /\ log' = Append(log, [session |-> p, op |-> "save_data"])
             /\ file' = s.file
             /\ table' = s.table
    /\ UNCHANGED <<pc, boot, backend, heap>>

\* main.py 139-153 in one of the sessions: choice 3 of the main menu.
RaceExit(p) ==
    /\ pc[p] = "menu"
    /\ LET stored == Get(users[p], user[p].username)
           with_playlists == Put(stored, Playlists, user[p].playlists)
           with_favorite == IF Truthy(user[p].favorite_mood)
                            THEN Put(with_playlists, FavoriteMood, user[p].favorite_mood)
                            ELSE Pop(with_playlists, FavoriteMood)
           users_raw == Put(users[p], user[p].username, with_favorite)
           s == save_data(backend, file, table, users_raw, NoFault)
       IN  /\ users' = [users EXCEPT ![p] = users_raw]
           /\ io' = [op |-> "save_data", fault |-> NoFault, exc |-> s.exc, val |-> users_raw]
           /\ file' = s.file
           /\ table' = s.table
    /\ pc' = [pc EXCEPT ![p] = "ended"]
    /\ log' = Append(log, [session |-> p, op |-> "save_data"])
    /\ UNCHANGED <<user, call, boot, backend, heap>>

\* Neither process has started; the store holds no account, or "u" next to "v".
InitRace ==
    /\ user = [p \in Sessions |-> NoUser]
    /\ users = [p \in Sessions |-> <<>>]
    /\ pc = [p \in Sessions |-> "start"]
    /\ call = NoCall
    /\ log = <<>>
    /\ boot = NoBoot
    /\ heap = TemplateHeap
    /\ io = NoIo
    /\ backend \in {"json", "mysql"}
    /\ \E i \in {1, Len(StoredCollections)} :
         \/ backend = "json" /\ table = <<>> /\ file = FileOf(dumps(StoredCollections[i]))
         \/ backend = "mysql" /\ file = NoFile /\ table = Rows(StoredCollections[i])

NextRace ==
    \/ \E p \in Sessions : RaceLogin(p)
    \/ \E p \in Sessions : RaceAddSong(p)
    \/ \E p \in Sessions : RaceExit(p)

SpecRace == InitRace /\ [][NextRace]_vars

(***************************************************************************)
(* Accounts made by ui.login and changed through their User objects, with  *)
(* the identity of every list and dict followed.  users[name]["playlists"] *)
(* and User.playlists hold the identity of a dict object.                  *)
(***************************************************************************)
MaxObjects == 12

AliasNames == {<<"u">>, <<" ", "v">>}

AliasMoods == {<<" ", "H">>, <<"c">>}

AliasSongs == {<<" ", "c">>}

AliasIndexes == {0}

Objects(h) == Len(h.lists) + Len(h.dicts)

\* The User object with its playlists read off the heap.
View(h, u) == [u EXCEPT !.playlists = Deref(h, u.playlists)]

\* ui.py 35-110: a new or malformed account gets a copy of the template (62-65,
\* 103-106) and the User holds that same dict (67, 108); a known account's User holds
\* the dict of its record (74-77).
LoginByRef ==
    /\ \E username_in \in AliasNames :
         LET username == strip(username_in)
             fresh == ~Has(users, username) \/ malformed(Get(users, username))
             id == IF fresh THEN Len(heap.dicts) + 1
                   ELSE Get(Get(users, username), Playlists)
         IN  /\ fresh => Objects(heap) + Len(DEFAULT_PLAYLISTS) + 1 <= MaxObjects
             /\ heap' = IF fresh THEN copy_playlists(heap, TemplateId) ELSE heap
             /\ users' = IF fresh THEN Put(users, username, Record(<<"p">>, id)) ELSE users
             /\ user' = [username |-> username, password |-> <<"p">>, playlists |-> id,
                         favorite_mood |-> None]
    /\ UNCHANGED <<call, pc, log, boot, storeVars>>

AddSongByRef ==
    /\ user.username # None
    /\ \E m \in AliasMoods, s \in AliasSongs :
         LET r == add_song(View(heap, user), m, s)
         IN  /\ heap' = in_place(heap, user.playlists, r.user.playlists)
    /\ UNCHANGED <<call, user, users, pc, log, boot, storeVars>>

DeleteSongByRef ==
    /\ user.username # None
    /\ \E m \in AliasMoods, i \in AliasIndexes :
         LET r == delete_song(View(heap, user), m, i)
         IN  /\ heap' = in_place(heap, user.playlists, r.user.playlists)
    /\ UNCHANGED <<call, user, users, pc, log, boot, storeVars>>

RenameSongByRef ==
    /\ user.username # None
    /\ \E m \in AliasMoods, i \in AliasIndexes, s \in AliasSongs :
         LET r == rename_song(View(heap, user), m, i, s)
         IN  /\ heap' = in_place(heap, user.playlists, r.user.playlists)
    /\ UNCHANGED <<call, user, users, pc, log, boot, storeVars>>

RenameMoodByRef ==
    /\ user.username # None
    /\ \E m \in AliasMoods, n \in AliasMoods :
         LET r == rename_mood(View(heap, user), m, n)
         IN  /\ heap' = IF r.exc = "none"
                        THEN rekeyed(heap, user.playlists, lower(strip(m)), lower(strip(n)))
                        ELSE heap
    /\ UNCHANGED <<call, user, users, pc, log, boot, storeVars>>

ClearAllPlaylistsByRef ==
    /\ user.username # None
    /\ Objects(heap) + Len(heap.dicts[user.playlists]) + 1 <= MaxObjects
    /\ heap' = cleared(heap, user.playlists)
    /\ user' = [user EXCEPT !.playlists = Len(heap.dicts) + 1]
    /\ UNCHANGED <<call, users, pc, log, boot, storeVars>>

\* The collection is empty, or holds a record for "v" that fails the shape check.
InitAlias ==
    /\ user = NoUser
    /\ call = NoCall
    /\ users \in {<<>>, << [k |-> <<"v">>, v |-> JsonList] >>}
    /\ pc = "loaded"
    /\ log = <<>>
    /\ boot = NoBoot
    /\ heap = TemplateHeap
    /\ file = NoFile
    /\ table = <<>>
    /\ backend = "json"
    /\ io = NoIo

NextAlias ==
    \/ LoginByRef
    \/ AddSongByRef
    \/ DeleteSongByRef
    \/ RenameSongByRef
    \/ RenameMoodByRef
    \/ ClearAllPlaylistsByRef

SpecAlias == InitAlias /\ [][NextAlias]_vars

(***************************************************************************)
(* Claims about the Account Model                                          *)
(***************************************************************************)
Domain == {"ValueError", "KeyError", "IndexError"}

\* Every key is non-empty, trimmed and lower-cased, and no two keys differ only in case.
KeysNormalized(d) ==
    /\ \A i \in 1..Len(d) : d[i].k # <<>> /\ strip(d[i].k) = d[i].k /\ lower(d[i].k) = d[i].k
    /\ \A i, j \in 1..Len(d) : i # j => lower(d[i].k) # lower(d[j].k)

\* No song list holds two entries whose lower-casings are equal.
NoCaseDuplicates(d) ==
    \A m \in 1..Len(d) : \A i, j \in 1..Len(d[m].v) :
        i # j => lower(d[m].v[i]) # lower(d[m].v[j])

\* C1: after any sequence of Account Model calls, succeeding or raising, every key of
\* playlists is a non-empty, trimmed, lower-cased string and no two keys differ only in case.
C1_KeysNormalized == KeysNormalized(user.playlists)

\* C1 witness: create_mood(" H") has succeeded beside another mood, and the key is "h".
C1_Witness ==
    /\ call.op = "create_mood" /\ call.mood = <<" ", "H">> /\ call.exc = "none"
    /\ Len(user.playlists) = 2
    /\ Has(user.playlists, <<"h">>)

\* A second add_song on the same mood right after a successful add_song(mood, s).
AddedTwice == call.op = "add_song" /\ call.exc = "none" /\ call'.op = "add_song"
              /\ lower(strip(call'.mood)) = lower(strip(call.mood))

Rejected ==
    /\ call'.exc = "ValueError"
    /\ Len(Get(user'.playlists, lower(strip(call.mood))))
         = Len(Get(user.playlists, lower(strip(call.mood))))

\* C2: no list ever holds two case-insensitively equal titles, and
\* add_song(mood, s) followed by add_song(mood, s.upper()) raises ValueError on the
\* second call and leaves the list length unchanged.
C2_UpperRejected ==
    /\ NoCaseDuplicates(user.playlists)
    /\ [][/\ NoCaseDuplicates(user'.playlists)
          /\ (AddedTwice /\ call'.name = upper(call.name)) => Rejected]_vars

\* C3: a call that raises a domain error leaves playlists, favorite_mood and password
\* exactly as they were; only the domain errors are ever raised.
C3_RaiseLeavesUser ==
    [][/\ call'.exc \in Domain \cup {"none"}
       /\ call'.exc \in Domain => user' = user]_vars

\* C3 witness: delete_song raised IndexError on a mood that holds songs, with a
\* favorite set.
C3_Witness ==
    /\ call.op = "delete_song" /\ call.exc = "IndexError"
    /\ Has(user.playlists, lower(strip(call.mood)))
    /\ Len(Get(user.playlists, lower(strip(call.mood)))) = 2
    /\ user.favorite_mood # None

(***************************************************************************)
(* Claims about single Account Model calls                                 *)
(***************************************************************************)
\* The key a call's mood argument stands for.
Mood(c) == lower(strip(c.mood))

\* Every mood of playlists d other than those in skip is a mood of e with the same list.
SameLists(d, e, skip) ==
    \A k \in Keys(d) \ skip : Has(e, k) /\ Get(e, k) = Get(d, k)

\* C15: create_mood with a name that is non-empty after trimming and whose normalized
\* form is not a key returns, adds exactly that key with an empty list and leaves every
\* other list as it was; create_mood with a name whose normalized form is already a key
\* (any case or whitespace variant of a created name) raises ValueError and changes
\* nothing, so the key is created once.
C15_CreateOnce ==
    [][call'.op = "create_mood" =>
         /\ (Mood(call') # <<>> /\ ~Has(user.playlists, Mood(call'))) =>
               /\ call'.exc = "none"
               /\ Keys(user'.playlists) = Keys(user.playlists) \cup {Mood(call')}
               /\ Len(user'.playlists) = Len(user.playlists) + 1
               /\ Get(user'.playlists, Mood(call')) = <<>>
               /\ SameLists(user.playlists, user'.playlists, {})
         /\ Has(user.playlists, Mood(call')) =>
               /\ call'.exc = "ValueError"
               /\ user'.playlists = user.playlists]_vars

\* C15 witness: create_mood("h") has raised ValueError on the key that an earlier
\* create_mood made, whose list now holds a song, beside another mood.
C15_Witness ==
    /\ call.op = "create_mood" /\ call.mood = <<"h">> /\ call.exc = "ValueError"
    /\ call.msg = "Mood already exists."
    /\ Get(user.playlists, <<"h">>) = << <<"S", "S">> >>
    /\ Has(user.playlists, <<"s">>)

\* C16: a successful add_song makes the mood's list the previous list with the trimmed
\* song appended, and changes no other list and no key; add_song raises KeyError when
\* the normalized mood is absent, whatever the song is, and ValueError when the mood
\* exists and the song is empty after trimming.
C16_AddAppends ==
    [][call'.op = "add_song" =>
         /\ call'.exc = "none" =>
               /\ Has(user.playlists, Mood(call'))
               /\ Get(user'.playlists, Mood(call'))
                    = Append(Get(user.playlists, Mood(call')), strip(call'.name))
               /\ Keys(user'.playlists) = Keys(user.playlists)
               /\ Len(user'.playlists) = Len(user.playlists)
               /\ SameLists(user.playlists, user'.playlists, {Mood(call')})
         /\ ~Has(user.playlists, Mood(call')) => call'.exc = "KeyError"
         /\ (Has(user.playlists, Mood(call')) /\ strip(call'.name) = <<>>)
               => call'.exc = "ValueError"]_vars

\* C16 witness: add_song(" H", " ss") has returned, the list that held "ß" now ends with
\* "ss", and another mood exists.
C16_Witness ==
    /\ call.op = "add_song" /\ call.exc = "none"
    /\ call.mood = <<" ", "H">> /\ call.name = <<" ", "s", "s">>
    /\ Get(user.playlists, <<"h">>) = << <<"ß">>, <<"s", "s">> >>
    /\ Has(user.playlists, <<"s">>)

\* The 1-based position that index i names in a list of n entries, from the end
\* when i is negative.
Position(i, n) == IF i >= 0 THEN i + 1 ELSE n + i + 1

\* C17: delete_song(mood, i) on an existing mood whose list l has n entries: when
\* -n <= i < n it returns the entry at position i (from the end for a negative i) and
\* the list becomes l without that entry, the others in their order; for any other i
\* (any i when n = 0) it raises IndexError and the list is unchanged; on an absent mood
\* it raises KeyError.
C17_DeleteAt ==
    [][call'.op = "delete_song" =>
         IF ~Has(user.playlists, Mood(call')) THEN call'.exc = "KeyError"
         ELSE LET l == Get(user.playlists, Mood(call'))
                  n == Len(l)
                  i == call'.index
                  p == Position(i, n)
              IN  IF -n <= i /\ i < n
                  THEN /\ call'.exc = "none"
                       /\ call'.ret = l[p]
                       /\ Get(user'.playlists, Mood(call'))
                            = SubSeq(l, 1, p - 1) \o SubSeq(l, p + 1, n)
                       /\ Len(Get(user'.playlists, Mood(call'))) = n - 1
                  ELSE /\ call'.exc = "IndexError"
                       /\ Get(user'.playlists, Mood(call')) = l]_vars

\* C17 witness: delete_song(mood, -2) on a list of two has returned the first title
\* and left the second.
C17_Witness ==
    /\ call.op = "delete_song" /\ call.exc = "none" /\ call.index = -2
    /\ call.ret = <<"ß">>
    /\ Get(user.playlists, Mood(call)) = << <<"S", "S">> >>

\* C20: rename_song(mood, i, newName) on an existing mood with 0 <= i < n raises
\* ValueError exactly when newName is empty after trimming or its lower-case form is
\* that of a song at another position; otherwise, also when it matches only the song
\* at position i, it returns and the list differs from the old one at position i
\* only, where it holds the trimmed newName.
C20_RenameInPlace ==
    [][call'.op = "rename_song" =>
         LET l == IF Has(user.playlists, Mood(call'))
                  THEN Get(user.playlists, Mood(call')) ELSE <<>>
             n == Len(l)
             i == call'.index
             new == strip(call'.name)
             taken == \E j \in 1..n : j # i + 1 /\ lower(l[j]) = lower(new)
             after == Get(user'.playlists, Mood(call'))
         IN  (0 <= i /\ i < n) =>
               /\ call'.exc = "ValueError" <=> (new = <<>> \/ taken)
               /\ call'.exc # "ValueError" =>
                     /\ call'.exc = "none"
                     /\ Len(after) = n
                     /\ \A j \in 1..n : after[j] = IF j = i + 1 THEN new ELSE l[j]]_vars

\* C20 witness: rename_song(mood, 1, " SS") has returned on a list whose entry 1 was
\* "ss": the list still has two entries, the first untouched.
C20_Witness ==
    /\ call.op = "rename_song" /\ call.exc = "none" /\ call.index = 1
    /\ call.name = <<" ", "S", "S">>
    /\ call.ret = << <<"s", "s">>, <<"S", "S">> >>
    /\ Get(user.playlists, Mood(call)) = << <<"ß">>, <<"S", "S">> >>

\* C19: rename_mood never changes favorite_mood; a get_favorite_songs that follows a
\* successful rename_mood of the favorite mood returns None; and get_favorite_songs
\* with a favorite that is a key returns that mood's list.
C19_FavoriteStale ==
    [][/\ call'.op = "rename_mood" => user'.favorite_mood = user.favorite_mood
       /\ (/\ call.op = "rename_mood" /\ call.exc = "none"
           /\ user.favorite_mood = Mood(call)
           /\ call'.op = "get_favorite_songs") => call'.ret = None
       /\ (call'.op = "get_favorite_songs" /\ Has(user.playlists, user.favorite_mood))
             => call'.ret = Get(user.playlists, user.favorite_mood)]_vars

\* C19 witness: the favorite "h" was renamed to "s" with its song, and
\* get_favorite_songs has returned None.
C19_Witness ==
    /\ call.op = "get_favorite_songs" /\ call.ret = None
    /\ user.favorite_mood = <<"h">>
    /\ user.playlists = << [k |-> <<"s">>, v |-> << <<"ß">> >>] >>

(***************************************************************************)
(* Claims about the session bootstrap                                      *)
(***************************************************************************)
\* What the last login was given: the username and password after strip(), and the
\* record the loaded collection held for that username.
Typed == strip(boot.username)

Candidate == strip(boot.password)

StoredRecord == Get(boot.loaded, Typed)

ShapeValid(rec) == IsDict(rec) /\ Has(rec, Password) /\ Has(rec, Playlists)

FreshProfile ==
    [username |-> Typed, password |-> Candidate, playlists |-> DEFAULT_PLAYLISTS,
     favorite_mood |-> None]

FreshCollection == Put(boot.loaded, Typed, Record(Candidate, DEFAULT_PLAYLISTS))

CreateCase == boot.variant # "none" /\ Typed # <<>> /\ ~Has(boot.loaded, Typed)

RejectCase ==
    /\ boot.variant # "none"
    /\ \/ Typed = <<>>
       \/ /\ Has(boot.loaded, Typed)
          /\ ShapeValid(StoredRecord)
          /\ Get(StoredRecord, Password) # Candidate

SuccessCase ==
    /\ boot.variant # "none"
    /\ Typed # <<>>
    /\ Has(boot.loaded, Typed)
    /\ ShapeValid(StoredRecord)
    /\ Get(StoredRecord, Password) = Candidate

RepairCase ==
    /\ boot.variant # "none"
    /\ Typed # <<>>
    /\ Has(boot.loaded, Typed)
    /\ ~ShapeValid(StoredRecord)

\* C4: a login with a non-empty username absent from the loaded collection takes the
\* create branch: the collection gains a record of the candidate password and a copy
\* of the default template, that collection is handed to save_data, the User returned
\* has the template as playlists; and the next login with the same username and
\* password on the collection this one left succeeds with the same moods.
C4_Create ==
    /\ [](CreateCase =>
            /\ boot.path = "create"
            /\ boot.users = FreshCollection
            /\ boot.saves = << FreshCollection >>
            /\ boot.user_obj = FreshProfile)
    /\ [][(/\ CreateCase
           /\ strip(boot'.username) = Typed
           /\ strip(boot'.password) = Candidate
           /\ boot'.loaded = boot.users)
          => (boot'.path = "success" /\ boot'.user_obj = boot.user_obj)]_vars

\* A second login of ui.login succeeded on a collection that was loaded from no file:
\* the account was created by the first and the file could not be written.
C4_Witness ==
    /\ backend = "json"
    /\ ~file.exists
    /\ boot.variant = "ui"
    /\ boot.path = "success"
    /\ boot.user_obj.playlists = DEFAULT_PLAYLISTS
    /\ Len(users) = 1

\* C5: with an empty username, or a well-formed record whose password differs from the
\* candidate, login returns no User, leaves the collection as loaded and calls
\* save_data not at all; main() then ends having made the one load_data call.
C5_RejectNoChange ==
    RejectCase =>
        /\ boot.path \in {"empty", "reject"}
        /\ boot.user_obj = NoUser
        /\ boot.users = boot.loaded
        /\ boot.saves = <<>>
        /\ (boot.variant = "main" /\ pc = "ended") =>
              (user = NoUser /\ users = boot.loaded /\ log = <<"load_data">>)

C5_Witness ==
    /\ boot.path = "reject"
    /\ boot.variant = "main"
    /\ pc = "ended"
    /\ Len(boot.loaded) = 2
    /\ Candidate = <<"q">>

\* C6: with a well-formed record and the matching password, login returns a User whose
\* playlists and favorite_mood are the stored ones, leaves the collection as loaded
\* and calls save_data not at all.
C6_Success ==
    SuccessCase =>
        /\ boot.path = "success"
        /\ boot.user_obj.playlists = Get(StoredRecord, Playlists)
        /\ boot.user_obj.favorite_mood = GetOrNone(StoredRecord, FavoriteMood)
        /\ boot.users = boot.loaded
        /\ boot.saves = <<>>

\* C7: with a record that fails the shape check, login replaces it by the candidate
\* password and a copy of the default template and nothing else, hands the collection
\* to save_data and returns a User on the template; main() leaves that record alone.
C7_Repair ==
    RepairCase =>
        /\ boot.path = "repair"
        /\ boot.users = FreshCollection
        /\ Get(boot.users, Typed) = Record(Candidate, DEFAULT_PLAYLISTS)
        /\ boot.saves = << FreshCollection >>
        /\ boot.user_obj = FreshProfile
        /\ (boot.variant = "main" /\ pc = "menu") => users = boot.users

C7_Witness ==
    /\ boot.path = "repair"
    /\ Has(StoredRecord, FavoriteMood)
    /\ ~Has(StoredRecord, Password)
    /\ ~Has(Get(users, Typed), FavoriteMood)
    /\ pc = "menu"

\* C8: whenever login returned a User, the raw record of that username in the
\* collection holds a password and a playlists that is a mapping.
C8_RecordShaped ==
    (boot.variant # "none" /\ boot.user_obj # NoUser /\ pc \in {"menu", "loaded"}) =>
        /\ Has(users, Typed)
        /\ ShapeValid(Get(users, Typed))
        /\ IsDict(Get(Get(users, Typed), Playlists))

(***************************************************************************)
(* Claims about the storage module                                         *)
(***************************************************************************)
\* What json.loads makes of every row, when each row decodes.
Decoded == [i \in 1..Len(table) |-> [k |-> table[i].k, v |-> table[i].v.value]]

Readable ==
    IF backend = "json" THEN file.exists /\ file.text.valid /\ IsDict(file.text.value)
    ELSE \A i \in 1..Len(table) : table[i].v.valid

\* C10: load_data raises nothing and returns a mapping: the stored collection when the
\* storage could be read and holds one, the empty mapping otherwise (file absent, not
\* JSON, not an object at the top, any failure of open() or of the connection).
C10_LoadFailsSoft ==
    io.op = "load_data" =>
        /\ io.exc = "none"
        /\ IsDict(io.val)
        /\ io.val = IF Readable /\ io.fault.kind = "none"
                    THEN (IF backend = "json" THEN file.text.value ELSE Decoded)
                    ELSE <<>>

C10_Witness ==
    /\ io.op = "load_data"
    /\ io.fault.kind = "PermissionError"
    /\ Readable
    /\ Len(file.text.value) = 2
    /\ io.val = <<>>

\* The store holds every account of the collection as the collection has it.
Persisted(collection) ==
    IF backend = "json" THEN file = FileOf(dumps(collection))
    ELSE \A i \in 1..Len(collection) :
            /\ Has(table, collection[i].k)
            /\ Get(table, collection[i].k) = dumps(collection[i].v)

\* C11: a save_data that fails raises nothing, leaves the store with the content it
\* held before the call and leaves the caller's collection as it was passed.
C11_SaveDropped ==
    [][(io'.op = "save_data" /\ io'.fault.kind # "none")
       => (io'.exc = "none" /\ users' = io'.val /\ file' = file /\ table' = table)]_vars

\* The rows the table holds for an account: one or none.
RowOf(t, name) == IF Has(t, name) THEN << Get(t, name) >> ELSE <<>>

\* C11 amended: save_data raises nothing and the caller's collection stays as passed,
\* so that a later save without failure stores it; the store keeps its content when
\* open() of the file is refused, and the row of the account whose upsert failed keeps
\* its content (a failure while the file is written, or after earlier upserts, does
\* change the store).
C11_SaveFailsSoft ==
    /\ [](io.op = "save_data" =>
            /\ io.exc = "none"
            /\ users = io.val
            /\ io.fault = NoFault => Persisted(users))
    /\ [][(io'.op = "save_data" /\ io'.fault.kind = "PermissionError")
          => (file' = file /\ table' = table)]_vars
    /\ [][(io'.op = "save_data" /\ backend = "mysql" /\ io'.fault.kind # "none")
          => RowOf(table', io'.val[io'.fault.at].k) = RowOf(table, io'.val[io'.fault.at].k)]_vars

\* A save of a collection with accounts could not open the file: the caller holds the
\* collection, the file is still absent.
C11_Witness ==
    /\ io.op = "save_data"
    /\ io.fault.kind = "PermissionError"
    /\ users # <<>>
    /\ ~file.exists

DecodableRow(row) == row.v.valid

\* The accounts of the rows that decode, in the order of the rows.
DecodedRows ==
    LET rows == SelectSeq(table, DecodableRow)
    IN  [i \in 1..Len(rows) |-> [k |-> rows[i].k, v |-> rows[i].v.value]]

\* C12: a load from the MySQL table that meets no connection failure returns the
\* account of every row that decodes, whether or not another row fails to decode.
C12_RowSkipped ==
    (io.op = "load_data" /\ backend = "mysql" /\ io.fault.kind = "none")
        => io.val = DecodedRows

\* Two dicts with the same keys and the same value under each key.
SameMapping(a, b) ==
    /\ Keys(a) = Keys(b)
    /\ \A name \in Keys(a) : Get(a, name) = Get(b, name)

\* C13: after the same successful save_data and load_data calls on both backends,
\* load_data returns the same mapping from the file as from the table.
C13_SameMapping ==
    io.op = "load_data" => SameMapping(io.val.json, io.val.mysql)

\* The positions of the log at which close_storage was called.
Closes == { i \in 1..Len(log) : log[i] = "close_storage" }

\* C14: when main() has ended, whether after Exit of the main menu or because
\* login() returned no profile, close_storage was called exactly once and it is
\* the last storage call of the run (so it follows the last save_data).
C14_ClosedOnce ==
    (pc = "ended" /\ boot.variant = "main") => Closes = {Len(log)} /\ Len(log) > 0

\* C18: for an existing mood a and a name b that is non-empty, distinct from a after
\* normalization and not a key, rename_mood(a, b) returns, and rename_mood(b, a) on
\* its result returns a profile in which a holds its original songs in their order,
\* b is no key and every other mood holds its list: the same mapping as before.
C18_RenameRoundTrip ==
    [][(/\ call'.op = "rename_mood"
        /\ Has(user.playlists, Mood(call'))
        /\ lower(strip(call'.name)) \notin {<<>>, Mood(call')}
        /\ ~Has(user.playlists, lower(strip(call'.name))))
       => LET a == Mood(call')
              b == lower(strip(call'.name))
              back == rename_mood(user', call'.name, call'.mood)
          IN  /\ call'.exc = "none"
              /\ Has(user'.playlists, b) /\ ~Has(user'.playlists, a)
              /\ back.exc = "none"
              /\ Has(back.user.playlists, a)
              /\ Get(back.user.playlists, a) = Get(user.playlists, a)
              /\ ~Has(back.user.playlists, b)
              /\ SameLists(user.playlists, back.user.playlists, {a})
              /\ SameMapping(back.user.playlists, user.playlists)]_vars

\* C18 witness: "x", a mood that only a rename can have made, has been renamed to "h",
\* which holds two songs again beside the mood "s".
C18_Witness ==
    /\ call.op = "rename_mood" /\ call.exc = "none"
    /\ call.mood = <<" ", "X">> /\ call.name = <<"h">>
    /\ Has(user.playlists, <<"s">>)
    /\ Get(user.playlists, <<"h">>) = << <<"s", "s">>, <<"ß">> >>
    /\ ~Has(user.playlists, <<"x">>)

\* C21: rename_mood raises KeyError when the normalized old name is no key; otherwise
\* ValueError "cannot be empty" when the new name is empty after trimming; otherwise
\* ValueError "same as old" when the normalized names are equal; otherwise ValueError
\* "already exists" when the normalized new name is a key; and a rename_mood that
\* raises leaves playlists as it was.
C21_RenameRejects ==
    [][call'.op = "rename_mood" =>
         LET old == Mood(call')
             new == lower(strip(call'.name))
         IN  /\ IF ~Has(user.playlists, old)
                THEN call'.exc = "KeyError"
                ELSE IF new = <<>>
                THEN call'.exc = "ValueError" /\ call'.msg = "New mood name cannot be empty."
                ELSE IF new = old
                THEN call'.exc = "ValueError" /\ call'.msg = "New mood name is the same as old."
                ELSE IF Has(user.playlists, new)
                THEN /\ call'.exc = "ValueError"
                     /\ call'.msg = "A mood with that name already exists."
                ELSE call'.exc = "none"
             /\ call'.exc # "none" => user'.playlists = user.playlists]_vars

\* C21 witness: rename_mood("h", " H") has raised "same as old" on a profile that
\* holds "h" with songs and the mood "s".
C21_Witness ==
    /\ call.op = "rename_mood" /\ call.exc = "ValueError"
    /\ call.mood = <<"h">> /\ call.name = <<" ", "H">>
    /\ call.msg = "New mood name is the same as old."
    /\ Get(user.playlists, <<"h">>) = << <<"s", "s">>, <<"ß">> >>
    /\ Has(user.playlists, <<"s">>)

\* C23: surprise_me never changes the profile.  With a mood given (a non-empty
\* mood_name) it raises KeyError when the normalized mood is no key and ValueError when
\* its list is empty, and otherwise returns the normalized mood with an entry of its
\* list; with none given it raises ValueError when no mood holds a song and otherwise
\* returns a key with an entry of that key's list.  The song a delete_song has just
\* removed, no longer in its list, is not returned for that mood.
C23_SurpriseMember ==
    [][call'.op = "surprise_me" =>
         /\ user' = user
         /\ IF call'.mood \notin {None, <<>>}
            THEN IF ~Has(user.playlists, Mood(call')) THEN call'.exc = "KeyError"
                 ELSE IF Get(user.playlists, Mood(call')) = <<>>
                      THEN call'.exc = "ValueError"
                 ELSE /\ call'.exc = "none"
                      /\ call'.ret[1] = Mood(call')
                      /\ call'.ret[2] \in Elems(Get(user.playlists, Mood(call')))
            ELSE IF \A k \in Keys(user.playlists) : Get(user.playlists, k) = <<>>
                 THEN call'.exc = "ValueError"
                 ELSE /\ call'.exc = "none"
                      /\ Has(user.playlists, call'.ret[1])
                      /\ call'.ret[2] \in Elems(Get(user.playlists, call'.ret[1]))
         /\ (/\ call.op = "delete_song" /\ call.exc = "none" /\ call'.exc = "none"
             /\ call.ret \notin Elems(Get(user.playlists, Mood(call))))
               => call'.ret # <<Mood(call), call.ret>>]_vars

\* C23 witness: surprise_me() over all moods has returned ("s", "ß") from a profile
\* whose other mood holds a song too.
C23_Witness ==
    /\ call.op = "surprise_me" /\ call.mood = None /\ call.exc = "none"
    /\ call.ret = << <<"s">>, <<"ß">> >>
    /\ Keys(user.playlists) = {<<"h">>, <<"s">>}
    /\ Get(user.playlists, <<"s">>) = << <<"ß">> >>
    /\ Get(user.playlists, <<"h">>) = << <<"s", "s">> >>

(***************************************************************************)
(* Claims about the read-only calls                                        *)
(***************************************************************************)
\* The places (mood position, song position) of playlists d whose song contains kw
\* when both are lower-cased.
Matches(d, kw) ==
    { p \in (1..Len(d)) \X (1..total_songs(d)) :
        p[2] <= Len(d[p[1]].v) /\ Contains(lower(d[p[1]].v[p[2]]), lower(kw)) }

\* C22: search_song returns, leaves the profile as it was, and returns one (mood, song)
\* pair for each place whose song contains the trimmed keyword case-insensitively and
\* no other pair; for a keyword that is empty after trimming the number of pairs is
\* total_songs of playlist_statistics.
C22_SearchExact ==
    [][call'.op = "search_song" =>
         LET kw == strip(call'.name)
             found == Matches(user.playlists, kw)
         IN  /\ call'.exc = "none"
             /\ user' = user
             /\ Len(call'.ret) = Cardinality(found)
             /\ \A p \in found :
                  \E i \in 1..Len(call'.ret) :
                     call'.ret[i] = <<user.playlists[p[1]].k, user.playlists[p[1]].v[p[2]]>>
             /\ \A i \in 1..Len(call'.ret) :
                  \E p \in found :
                     call'.ret[i] = <<user.playlists[p[1]].k, user.playlists[p[1]].v[p[2]]>>
             /\ kw = <<>> => Len(call'.ret) = playlist_statistics(user).ret.total_songs]_vars

\* C22 witness: search_song(" S") has found "SS" in one mood and "ss" in the other,
\* and not "ß".
C22_Witness ==
    /\ call.op = "search_song" /\ call.name = <<" ", "S">>
    /\ call.ret = << << <<"h">>, <<"S", "S">> >>, << <<"s">>, <<"s", "s">> >> >>
    /\ total_songs(user.playlists) = 3

\* The places (mood position, song position) of playlists d.
Places(d) == UNION { { <<i, j>> : j \in 1..Len(d[i].v) } : i \in 1..Len(d) }

\* The first mood of d, in iteration order, whose list has n songs, with n.
FirstOfLength(d, n) ==
    LET i == CHOOSE i \in 1..Len(d) :
                 Len(d[i].v) = n /\ \A j \in 1..(i - 1) : Len(d[j].v) # n
    IN  <<d[i].k, n>>

Lengths(d) == { Len(d[i].v) : i \in 1..Len(d) }

\* C24: playlist_statistics returns; total_songs is the sum of the list lengths,
\* num_moods the number of keys, longest_playlist the first mood in iteration order
\* with the greatest count and shortest_playlist the first with the least count, each
\* with that count; with no moods it returns 0, 0, (None, 0), (None, 0).
C24_Statistics ==
    [][call'.op = "playlist_statistics" =>
         LET d == user.playlists
             most == CHOOSE n \in Lengths(d) : \A m \in Lengths(d) : m <= n
             least == CHOOSE n \in Lengths(d) : \A m \in Lengths(d) : n <= m
         IN  /\ call'.exc = "none"
             /\ call'.ret.total_songs = Cardinality(Places(d))
             /\ call'.ret.num_moods = Cardinality(Keys(d))
             /\ IF d = <<>>
                THEN /\ call'.ret.longest_playlist = <<None, 0>>
                     /\ call'.ret.shortest_playlist = <<None, 0>>
                ELSE /\ call'.ret.longest_playlist = FirstOfLength(d, most)
                     /\ call'.ret.shortest_playlist = FirstOfLength(d, least)]_vars

\* C24 witness: the statistics of two moods of one song each name the first mood, "s",
\* as the longest and as the shortest.
C24_Witness ==
    /\ call.op = "playlist_statistics"
    /\ user.playlists = << [k |-> <<"s">>, v |-> << <<"ß">> >>],
                           [k |-> <<"h">>, v |-> << <<"S", "S">> >>] >>
    /\ call.ret.total_songs = 2 /\ call.ret.num_moods = 2
    /\ call.ret.longest_playlist = << <<"s">>, 1 >>
    /\ call.ret.shortest_playlist = << <<"s">>, 1 >>

\* C25: when the upsert of one account fails during a save_data on the MySQL backend,
\* every account that precedes it in the collection has its new row, and the failed
\* account has the row it had before, or none: the table can hold rows of two versions.
C25_PartialUpsert ==
    [][(io'.op = "save_data" /\ backend = "mysql" /\ io'.fault.kind # "none")
         => /\ \A i \in 1..(io'.fault.at - 1) :
                 RowOf(table', io'.val[i].k) = << dumps(io'.val[i].v) >>
            /\ RowOf(table', io'.val[io'.fault.at].k)
                 = RowOf(table, io'.val[io'.fault.at].k)]_vars

\* C25 witness: a save of two accounts failed at the second: the first account's row
\* is the new one, the second account's row is an older one.
C25_Witness ==
    /\ io.op = "save_data" /\ backend = "mysql" /\ io.fault.at = 2
    /\ RowOf(table, io.val[1].k) = << dumps(io.val[1].v) >>
    /\ RowOf(table, io.val[2].k) # <<>>
    /\ RowOf(table, io.val[2].k) # << dumps(io.val[2].v) >>

(***************************************************************************)
(* Claims about sessions and the accounts of the store                     *)
(***************************************************************************)
\* The last login returned a User, or left another record under the typed username
\* than the one loaded, or handed a collection to save_data.
Admitted ==
    \/ boot.user_obj # NoUser
    \/ Get(boot.users, Typed) # StoredRecord
    \/ boot.saves # <<>>

\* C28: a login with the username of a loaded record that holds a password returns a
\* User, or changes or saves that record, only if the typed password is the stored one.
C28_PasswordGuards ==
    (/\ boot.variant # "none" /\ Typed # <<>> /\ Has(boot.loaded, Typed)
     /\ IsDict(StoredRecord) /\ Has(StoredRecord, Password)
     /\ Admitted)
        => Get(StoredRecord, Password) = Candidate

\* C28 amended: a login with the username of a loaded record that passes the shape
\* check (a password and a playlists field) returns a User, or changes or saves that
\* record, only if the typed password is the stored one.
C28_PasswordGuardsShaped ==
    (/\ boot.variant # "none" /\ Typed # <<>> /\ Has(boot.loaded, Typed)
     /\ ShapeValid(StoredRecord)
     /\ Admitted)
        => Get(StoredRecord, Password) = Candidate

\* C28 witness: ui.login has turned away the password "q" for a record that holds the
\* password "p", playlists and a favorite, and the collection is as loaded.
C28_Witness ==
    /\ boot.variant = "ui" /\ boot.path = "reject"
    /\ Candidate = <<"q">>
    /\ Has(StoredRecord, FavoriteMood)
    /\ boot.user_obj = NoUser
    /\ boot.users = boot.loaded

\* The accounts the backing store holds, each with what is stored for it: the records
\* of the file when it holds a collection, the rows of the table.
AccountsIn(be, f, t) ==
    IF be = "mysql" THEN t
    ELSE IF f.exists /\ f.text.valid /\ IsDict(f.text.value) THEN f.text.value
    ELSE <<>>

\* C27: no step of a session (load_data, login, save_data, exit) removes or alters what
\* the backing store holds for an account other than the session's own username, also
\* when load_data failed soft and returned the empty mapping.
C27_OthersKept ==
    [][\A name \in Keys(AccountsIn(backend, file, table)) \ {strip(boot'.username)} :
          /\ Has(AccountsIn(backend, file', table'), name)
          /\ Get(AccountsIn(backend, file', table'), name)
               = Get(AccountsIn(backend, file, table), name)]_vars

(***************************************************************************)
(* Claims about the menu of one session                                    *)
(***************************************************************************)

\* The favorite of a profile is unset or one of its moods.
FavoriteNamed(u) == u.favorite_mood = None \/ Has(u.playlists, u.favorite_mood)

Synced(u, raw) ==
    /\ Has(raw, u.username)
    /\ LET rec == Get(raw, u.username) IN
       /\ Has(rec, Playlists) /\ Get(rec, Playlists) = u.playlists
       /\ Has(rec, Password) /\ Get(rec, Password) = u.password
       /\ IF u.favorite_mood = None THEN ~Has(rec, FavoriteMood)
          ELSE Has(rec, FavoriteMood) /\ Get(rec, FavoriteMood) = u.favorite_mood

\* A step of the menu that returns to the prompt.
MenuStep == pc = "menu" /\ pc' = "menu"

\* C29: after every menu choice that succeeds in changing the profile, the raw record of
\* the user holds the profile's playlists, favorite (absent when unset) and password,
\* and save_data was called with that collection before the next prompt; a choice whose
\* Account Model call raised called save_data zero times.
C29_MenuKeepsRecord ==
    [][MenuStep =>
         /\ (call'.exc = "none" /\ user' # user) =>
               /\ Synced(user', users')
               /\ io'.op = "save_data" /\ io'.val = users'
         /\ call'.exc # "none" => io'.op = "none"]_vars

(***************************************************************************)
(* Claims about two sessions on one store                                  *)
(***************************************************************************)

\* The collection a process starting now would load.
Stored == load_data(backend, file, table, "none").val

\* C26: with two sessions on one store and no lock, a save_data of either session
\* leaves in the store, for every account of the collection it passed, the record of
\* that collection, whatever the other session has saved since this one loaded, and
\* signals no error: the last save wins.  The interleaving in which both sessions load,
\* A saves a mutation and B's later save removes it from the store is C26_Witness.
C26_LastSaveWins ==
    [][(log' # log /\ log'[Len(log')].op = "save_data") =>
         /\ io'.exc = "none"
         /\ io'.val = users'[log'[Len(log')].session]
         /\ \A name \in Keys(io'.val) :
               Has(Stored', name) /\ Get(Stored', name) = Get(io'.val, name)]_vars

\* A and B have both loaded, A has added the song "c" to the mood "h" of "u" and saved,
\* B has saved after that from the copy it loaded before: the store holds B's record of
\* "u", the song is not in it, and no error was signalled.
C26_Witness ==
    /\ log = << [session |-> "A", op |-> "load_data"], [session |-> "B", op |-> "load_data"],
                [session |-> "A", op |-> "save_data"], [session |-> "B", op |-> "save_data"] >>
    /\ user["A"].username = <<"u">>
    /\ <<"c">> \in Elems(Get(user["A"].playlists, <<"h">>))
    /\ Get(Get(users["A"], <<"u">>), Playlists) = user["A"].playlists
    /\ Has(Stored, <<"u">>)
    /\ Get(Stored, <<"u">>) = Get(users["B"], <<"u">>)
    /\ <<"c">> \notin Elems(Get(Get(Get(Stored, <<"u">>), Playlists), <<"h">>))
    /\ io.exc = "none" /\ call.exc = "none"

(***************************************************************************)
(* Claims about object identity                                            *)
(***************************************************************************)
PlaylistsOf(h, collection, name) == Deref(h, Get(Get(collection, name), Playlists))

\* C9: the default template keeps its contents whatever is done to the accounts made
\* from it, and no step changes the playlists of an account other than the one whose
\* User object is in use.
C9_NoAliasing ==
    /\ [](Deref(heap, TemplateId) = DEFAULT_PLAYLISTS)
    /\ [][\A name \in Keys(users) :
            (name # user'.username /\ ShapeValid(Get(users, name)))
            => PlaylistsOf(heap', users', name) = PlaylistsOf(heap, users, name)]_vars

\* Both accounts exist, a mood of "u" was renamed and a song added to it through its
\* User object, and "v" still has the template's moods and songs.
C9_Witness ==
    /\ user.username = <<"u">>
    /\ Has(users, <<"v">>)
    /\ ShapeValid(Get(users, <<"v">>))
    /\ PlaylistsOf(heap, users, <<"v">>) = DEFAULT_PLAYLISTS
    /\ Keys(Deref(heap, user.playlists)) = {<<"c">>, <<"s">>}
    /\ Get(Deref(heap, user.playlists), <<"c">>) = << <<"s", "s">>, <<"c">> >>

=============================================================================
